---- MODULE Spec2Model ----
(***************************************************************************)
(* Model of the image_compressor crate: FolderCompressor::compress and     *)
(* FolderCompressor::compress_with_sender (image_compressor/src/lib.rs),   *)
(* the worker loops process / process_with_sender and the per-file         *)
(* pipeline Compressor::compress_to_jpg (image_compressor/src/             *)
(* compressor.rs), run over a small file system.                           *)
(***************************************************************************)
EXTENDS Integers, Sequences, FiniteSets, TLC

\* ------------------------------------------------------------------------
\* Bounds
\* ------------------------------------------------------------------------
MaxThreads == 2
MaxFiles == 2
MaxDirs == 2
MaxDim == 3
MaxJobs == 3

\* ------------------------------------------------------------------------
\* Paths.  A directory is a sequence of components; a file path is a record
\* [dir, name] whose name is the sequence of the dot-separated parts of the
\* file name (<<"x","png">> is x.png).
\* ------------------------------------------------------------------------
File(d, n) == [dir |-> d, name |-> n]

NoFile == File(<<>>, <<>>)

\* Path::file_stem: the file name without its last extension.
file_stem(n) == IF Len(n) > 1 THEN SubSeq(n, 1, Len(n) - 1) ELSE n

\* Path::extension, with the code's default of "" when there is none.
extension(n) == IF Len(n) > 1 THEN n[Len(n)] ELSE ""

\* PathBuf::set_extension: replaces the last extension, or adds one.
set_extension(n, e) == file_stem(n) \o <<e>>

\* Path::strip_prefix.
strip_prefix(p, base) ==
    IF Len(base) <= Len(p) /\ SubSeq(p, 1, Len(base)) = base
    THEN [ok |-> TRUE, rel |-> SubSeq(p, Len(base) + 1, Len(p))]
    ELSE [ok |-> FALSE, rel |-> <<>>]

\* Path::join with a relative path.
join(d, rel) == d \o rel

\* Stems that stand for a name that is not valid UTF-8 (to_str() is None).
NonUtf8Stems == {"w", "nw"}

to_str_ok(f) == f.name[1] \notin NonUtf8Stems

\* Stems whose original content the image library cannot decode.
JunkStems == {"n", "nw"}

\* Stems of images whose pixels the JPEG encoder fails on (compress returns
\* an Err).
EncoderFailStems == {"e"}

\* The files an origin tree may hold.
Candidates ==
    { File(<<"origin">>, <<"x", "jpg">>),
      File(<<"origin">>, <<"x", "png">>),
      File(<<"origin", "a">>, <<"n", "txt">>),
      File(<<"origin">>, <<"w", "png">>) }

\* Further files an origin tree may hold: two images of one stem with
\* different extensions that are not JPEG, an image with two dots in its name,
\* a file named .jpg that is no image, and a file that is no image and whose
\* name is not UTF-8.
MoreCandidates ==
    { File(<<"origin">>, <<"x", "png">>),
      File(<<"origin">>, <<"x", "bmp">>),
      File(<<"origin">>, <<"x", "v", "png">>),
      File(<<"origin">>, <<"n", "jpg">>),
      File(<<"origin">>, <<"nw", "txt">>) }

\* Every path a call and a repeated call may find in an origin tree of the
\* further candidates: the files and the converted files that convert_to_jpg
\* leaves beside them.
Universe ==
    MoreCandidates \cup
        {File(f.dir, set_extension(file_stem(f.name), "jpg")) : f \in MoreCandidates}

\* File contents: which original the bytes derive from and in which form
\* ("orig" the original bytes, "conv" a JPEG re-save, "comp" the compressed
\* output, "pre" a file that was at the destination before the call).
Content(src, form) == [src |-> src, form |-> form]

\* image::open succeeds on this content.
Decodable(c) == c.form \in {"conv", "comp"} \/ (c.form = "orig" /\ c.src.name[1] \notin JunkStems)

\* Compressor::compress succeeds on the pixels of this content.
Encodable(c) == c.src.name[1] \notin EncoderFailStems

\* ------------------------------------------------------------------------
\* The heuristic: the function that gives the quality and the scale
\* ------------------------------------------------------------------------
\* Factor::new(quality, size_ratio); the ratio is kept in hundredths
\* (0.7 is 70).
Factor(quality, size_ratio) == [quality |-> quality, size_ratio |-> size_ratio]

\* Mutant: the arms compare with >= instead of >.
default_cal_func_inclusive(width, height, file_size) ==
    IF file_size >= 5000000 THEN Factor(60, 70)
    ELSE IF file_size >= 1000000 THEN Factor(65, 75)
    ELSE IF file_size >= 500000 THEN Factor(70, 80)
    ELSE IF file_size >= 300000 THEN Factor(75, 85)
    ELSE IF file_size >= 100000 THEN Factor(80, 90)
    ELSE Factor(85, 100)

\* default_cal_func: the match arms in their order; width and height are
\* not read.
default_cal_func(width, height, file_size) ==
    IF file_size > 5000000 THEN Factor(60, 70)
    ELSE IF file_size > 1000000 THEN Factor(65, 75)
    ELSE IF file_size > 500000 THEN Factor(70, 80)
    ELSE IF file_size > 300000 THEN Factor(75, 85)
    ELSE IF file_size > 100000 THEN Factor(80, 90)
    ELSE Factor(85, 100)

\* The closure of the crate's examples: |width, height, file_size| Factor::new(75., 0.7).
example_cal_func(width, height, file_size) == Factor(75, 70)

\* The functions a FolderCompressor may hold, by name.
CalFuncs == {"default_cal_func", "example_cal_func"}

\* No function: the thread was not spawned.
NoFunc == "none"

\* (cal_func)(width, height, file_size) for a function pointer.
call_cal_func(fn, width, height, file_size) ==
    IF fn = "example_cal_func" THEN example_cal_func(width, height, file_size)
    ELSE default_cal_func(width, height, file_size)

\* DynamicImage::width and height of the image a content decodes to: a
\* re-save keeps the dimensions of its source.
dimensions(c) ==
    IF extension(c.src.name) = "png" THEN [width |-> 4000, height |-> 3000]
    ELSE IF extension(c.src.name) = "bmp" THEN [width |-> 800, height |-> 600]
    ELSE [width |-> 1920, height |-> 1080]

\* Metadata::len of a file holding content c.
metadata_len(c) ==
    IF c.form = "orig"
    THEN (IF extension(c.src.name) = "png" THEN 6000000
          ELSE IF extension(c.src.name) = "bmp" THEN 9000000
          ELSE IF extension(c.src.name) = "txt" THEN 1000
          ELSE 400000)
    ELSE IF c.form = "conv" THEN 1200000
    ELSE IF c.form = "comp" THEN 200000
    ELSE 1000

\* ------------------------------------------------------------------------
\* State
\* ------------------------------------------------------------------------
VARIABLES
    thread_count,       \* FolderCompressor.thread_count
    callPc,             \* position of the caller inside compress / compress_with_sender
    mode,               \* "none", "plain" (compress) or "sender" (compress_with_sender)
    result,             \* "none", "Ok" or "Err": the value returned by the call
    to_comp_file_list,  \* the Vec returned by get_file_list
    queue,              \* the SegQueue
    spawned,            \* number of handles pushed
    joined,             \* number of handles joined
    wk,                 \* per worker: pc, file, current_file, converted_file, res
    fs,                 \* the files that exist: path -> content
    dirs,               \* the directories that exist under the destination
    env,                \* the destination before the call and what the environment refuses
    rxAlive,            \* the Receiver has not been dropped
    chan,               \* messages delivered to the Receiver, in order
    hist,               \* history: pops, outcomes, writes and sends, for stating properties
    probe,              \* a call of a pure function: its arguments and its result
    self,               \* FolderCompressor: calculate_quality_and_size and the two paths
    arc_cal_func,       \* per worker thread: the function its closure captured
    arch,               \* the archiver: its queue, the archives at its destination, its results
    app                 \* the GUI: App's fields and its background jobs

vars == <<thread_count, callPc, mode, result, to_comp_file_list, queue, spawned,
          joined, wk, fs, dirs, env, probe, self, arc_cal_func, arch, app, rxAlive, chan, hist>>

\* The two paths given to FolderCompressor::new.
original_path == self.original_path

destination_path == self.destination_path

Workers == 1..MaxThreads

\* A worker thread that was not spawned yet.
Idle == [pc |-> "idle", file |-> NoFile, dest |-> <<>>, cur |-> NoFile,
         conv |-> NoFile, data |-> Content(NoFile, "none"), res |-> "none",
         conflict |-> FALSE, cal |-> <<>>, resized |-> NoFile]

\* FolderCompressor::new, without thread_count.
new(origin_path, dest_path) ==
    [calculate_quality_and_size |-> "default_cal_func",
     original_path |-> origin_path,
     destination_path |-> dest_path]

\* The history at the start of the n-th call, over the paths U that an
\* enumeration may return.
NoHist(n, U) ==
    [pops |-> [f \in U |-> 0],
     outcome |-> [f \in U |-> "none"],
     writes |-> {},
     fswrites |-> [f \in U |-> 0],
     sends |-> <<>>,
     lost |-> FALSE,
     msgs |-> [f \in U |-> 0],
     run |-> n]

\* No pure function is being called.
NoProbe == [fn |-> "none"]

\* The archiver was not called.
NoArch == [pc |-> "none"]

\* The GUI is not running.
NoApp == [ui |-> "none"]

\* The origin trees: at most MaxFiles of the candidate files.
Trees == {t \in SUBSET Candidates : Cardinality(t) <= MaxFiles}

\* What the destination and the environment look like before the call.
DestEnv(pre, ds, unreadable, uncreatable, unwritable) ==
    [pre |-> pre, dirs |-> ds, rootReadable |-> ~unreadable,
     uncreatable |-> uncreatable, unwritable |-> unwritable]

DestEnvs ==
    { DestEnv({}, {}, FALSE, {}, {}),
      DestEnv({}, {destination_path}, TRUE, {}, {}),
      DestEnv({}, {destination_path}, FALSE, {<<"dest", "a">>}, {}),
      DestEnv({}, {destination_path}, FALSE, {}, {destination_path}),
      DestEnv({File(destination_path, <<"x", "jpg">>)}, {destination_path}, FALSE, {}, {}),
      DestEnv({File(destination_path, <<"x", "png">>)}, {destination_path}, FALSE, {}, {}),
      DestEnv({File(destination_path, <<"w", "png">>)}, {destination_path}, FALSE, {}, {}) }

\* All orders of a finite set, as sequences.
Orders(S) ==
    {s \in [1..Cardinality(S) -> S] : \A i, j \in 1..Cardinality(S) : i # j => s[i] # s[j]}

\* crawler::get_file_list: the regular files beneath a directory, recursively,
\* in an order the file system decides.
get_file_list(d) == Orders({f \in DOMAIN fs : strip_prefix(f.dir, d).ok})

Init ==
    /\ self = new(<<"origin">>, <<"dest">>)
    /\ arch = NoArch
    /\ app = NoApp
    /\ arc_cal_func = [w \in Workers |-> NoFunc]
    /\ thread_count = 1
    /\ callPc = "new"
    /\ mode = "none"
    /\ result = "none"
    /\ to_comp_file_list = <<>>
    /\ queue = <<>>
    /\ spawned = 0
    /\ joined = 0
    /\ wk = [w \in Workers |-> Idle]
    /\ \E t \in Trees, e \in DestEnvs :
          /\ fs = [f \in t \cup e.pre |->
                     IF f \in t THEN Content(f, "orig") ELSE Content(f, "pre")]
          /\ dirs = e.dirs
          /\ env = e
    /\ rxAlive = TRUE
    /\ chan = <<>>
    /\ probe = NoProbe
    /\ hist = NoHist(1, Candidates)

\* ------------------------------------------------------------------------
\* Messages of the progress channel
\* ------------------------------------------------------------------------
Msg(kind, n, name, err) == [kind |-> kind, n |-> n, name |-> name, err |-> err]

\* "Total file count: <n>"
TotalMsg(n) == Msg("total", n, <<>>, "")

\* "Compress complete!"
CompleteMsg == Msg("complete", 0, <<>>, "")

\* "Compress complete! File: <name>"
FileMsg(name) == Msg("file", 0, name, "")

\* e.to_string() of a pipeline error
ErrorMsg(name, err) == Msg("error", 0, name, err)

\* mpsc::Sender::send: the message is delivered while the Receiver lives; once
\* it was dropped send returns an Err, which every caller only prints.
Deliver(m) == IF rxAlive THEN Append(chan, m) ELSE chan

\* The history of send calls; item is the queue item the message is about,
\* NoFile for the two batch messages.
Logged(h, m, item) ==
    [h EXCEPT !.sends = Append(@, [msg |-> m, item |-> item]),
              !.lost = @ \/ ~rxAlive,
              !.msgs = IF item \in DOMAIN h.msgs THEN [@ EXCEPT ![item] = @ + 1] ELSE @]

\* The environment drops the Receiver while compress_with_sender runs; the
\* messages it had not taken are dropped with it.
DropReceiver ==
    /\ mode = "sender"
    /\ callPc \notin {"returned", "panicked"}
    /\ rxAlive
    /\ rxAlive' = FALSE
    /\ chan' = <<>>
    /\ UNCHANGED <<thread_count, callPc, mode, result, to_comp_file_list, queue,
                   spawned, joined, wk, fs, dirs, env, probe, arch, app, self, arc_cal_func, hist>>

\* ------------------------------------------------------------------------
\* FolderCompressor: the setter and the two calls
\* ------------------------------------------------------------------------
\* Mutant: the setter builds the FolderCompressor anew around the count.
set_thread_count_anew(n) ==
    /\ callPc = "new"
    /\ thread_count # n
    /\ thread_count' = n
    /\ self' = new(self.original_path, self.destination_path)
    /\ UNCHANGED <<callPc, mode, result, to_comp_file_list, queue, spawned, joined,
                   wk, fs, dirs, env, probe, arch, app, arc_cal_func, rxAlive, chan, hist>>

\* set_thread_count, lines 173-175.
set_thread_count(n) ==
    /\ callPc = "new"
    /\ thread_count # n
    /\ thread_count' = n
    /\ UNCHANGED <<callPc, mode, result, to_comp_file_list, queue, spawned, joined,
                   wk, fs, dirs, env, probe, arch, app, self, arc_cal_func, rxAlive, chan, hist>>

\* set_cal_func, lines 156-158.
set_cal_func(cal_func) ==
    /\ callPc = "new"
    /\ self.calculate_quality_and_size # cal_func
    /\ self' = [self EXCEPT !.calculate_quality_and_size = cal_func]
    /\ UNCHANGED <<thread_count, callPc, mode, result, to_comp_file_list, queue, spawned,
                   joined, wk, fs, dirs, env, probe, arch, app, arc_cal_func, rxAlive, chan, hist>>

\* Where the caller goes once the queue is filled: the spawn loop, or past it
\* when thread_count is 0.
AfterPush == IF thread_count = 0 THEN "join" ELSE "spawn"

\* Mutant: get_file_list(..).unwrap_or_default(), a failed enumeration is an
\* empty list.
compress_swallow ==
    /\ callPc = "new"
    /\ mode' = "plain"
    /\ \E l \in (IF env.rootReadable THEN get_file_list(original_path) ELSE {<<>>}) :
          /\ to_comp_file_list' = l
          /\ queue' = l
          /\ callPc' = AfterPush
          /\ result' = result
    /\ UNCHANGED <<thread_count, spawned, joined, wk, fs, dirs, env, probe, arch, app, self, arc_cal_func, rxAlive, chan, hist>>

\* compress, lines 270-274: enumerate (the ? returns the Err) and fill the queue.
compress ==
    /\ callPc = "new"
    /\ mode' = "plain"
    /\ IF env.rootReadable
       THEN \E l \in get_file_list(original_path) :
              /\ to_comp_file_list' = l
              /\ queue' = l
              /\ callPc' = AfterPush
              /\ result' = result
       ELSE /\ callPc' = "returned"
            /\ result' = "Err"
            /\ UNCHANGED <<to_comp_file_list, queue>>
    /\ UNCHANGED <<thread_count, spawned, joined, wk, fs, dirs, env, probe, arch, app, self, arc_cal_func, rxAlive, chan, hist>>

\* compress_with_sender, line 205: enumerate; the Receiver may already be gone.
compress_with_sender(alive) ==
    /\ callPc = "new"
    /\ mode' = "sender"
    /\ rxAlive' = alive
    /\ IF env.rootReadable
       THEN \E l \in get_file_list(original_path) :
              /\ to_comp_file_list' = l
              /\ callPc' = "total"
              /\ result' = result
       ELSE /\ callPc' = "returned"
            /\ result' = "Err"
            /\ UNCHANGED to_comp_file_list
    /\ UNCHANGED <<thread_count, queue, spawned, joined, wk, fs, dirs, env, probe, arch, app, self, arc_cal_func, chan, hist>>

\* Mutant: the total is taken after one path was moved out of the list.
FileCountShort(l) == IF Len(l) > 0 THEN Len(l) - 1 ELSE 0

\* to_comp_file_list.len()
FileCount(l) == Len(l)

\* Mutant: compress_with_sender fills the queue from the end of the list.
SendTotalReversed ==
    /\ callPc = "total"
    /\ chan' = Deliver(TotalMsg(FileCount(to_comp_file_list)))
    /\ hist' = Logged(hist, TotalMsg(FileCount(to_comp_file_list)), NoFile)
    /\ queue' = [i \in 1..Len(to_comp_file_list) |->
                    to_comp_file_list[Len(to_comp_file_list) + 1 - i]]
    /\ callPc' = AfterPush
    /\ UNCHANGED <<thread_count, mode, result, to_comp_file_list, spawned, joined,
                   wk, fs, dirs, env, probe, arch, app, self, arc_cal_func, rxAlive>>

\* compress_with_sender, lines 206-216: send the total, then fill the queue.
SendTotal ==
    /\ callPc = "total"
    /\ chan' = Deliver(TotalMsg(FileCount(to_comp_file_list)))
    /\ hist' = Logged(hist, TotalMsg(FileCount(to_comp_file_list)), NoFile)
    /\ queue' = to_comp_file_list
    /\ callPc' = AfterPush
    /\ UNCHANGED <<thread_count, mode, result, to_comp_file_list, spawned, joined,
                   wk, fs, dirs, env, probe, arch, app, self, arc_cal_func, rxAlive>>

\* Mutant: the spawn loop stops once there is a thread for every queued item.
SpawnUpToItems ==
    /\ callPc = "spawn"
    /\ spawned < thread_count
    /\ spawned' = spawned + 1
    /\ wk' = [wk EXCEPT ![spawned + 1].pc = "head"]
    /\ arc_cal_func' = [arc_cal_func EXCEPT ![spawned + 1] = self.calculate_quality_and_size]
    /\ callPc' = IF spawned + 1 = thread_count \/ spawned + 1 >= Len(to_comp_file_list)
                 THEN "join" ELSE "spawn"
    /\ UNCHANGED <<thread_count, mode, result, to_comp_file_list, queue, joined,
                   fs, dirs, env, probe, arch, app, self, rxAlive, chan, hist>>

\* One turn of the spawn loop (lines 220-230, 279-288): the closure takes
\* the function out of the Arc, and the new thread starts at the head of its
\* loop.
Spawn ==
    /\ callPc = "spawn"
    /\ spawned < thread_count
    /\ spawned' = spawned + 1
    /\ wk' = [wk EXCEPT ![spawned + 1].pc = "head"]
    /\ arc_cal_func' = [arc_cal_func EXCEPT ![spawned + 1] = self.calculate_quality_and_size]
    /\ callPc' = IF spawned + 1 = thread_count THEN "join" ELSE "spawn"
    /\ UNCHANGED <<thread_count, mode, result, to_comp_file_list, queue, joined,
                   fs, dirs, env, probe, arch, app, self, rxAlive, chan, hist>>

\* Mutant: join returns at once, whatever the thread is doing.
TerminatedAtOnce(w) == TRUE

\* Mutant: the caller does not join the handles before it goes on.
AllJoinedEarly == TRUE

\* JoinHandle::join returns once the thread has ended.
Terminated(w) == wk[w].pc \in {"done", "panicked"}

\* The for loop over the handles has joined every one of them.
AllJoined == joined = thread_count

\* One turn of the join loop (lines 232-234, 290-292): h.join().unwrap() waits
\* for the thread and panics when the thread panicked.
Join ==
    /\ callPc = "join"
    /\ joined < thread_count
    /\ Terminated(joined + 1)
    /\ IF wk[joined + 1].pc = "panicked"
       THEN callPc' = "panicked" /\ joined' = joined
       ELSE callPc' = callPc /\ joined' = joined + 1
    /\ UNCHANGED <<thread_count, mode, result, to_comp_file_list, queue, spawned,
                   wk, fs, dirs, env, probe, arch, app, self, arc_cal_func, rxAlive, chan, hist>>

\* compress, line 293.
ReturnOk ==
    /\ callPc = "join"
    /\ AllJoined
    /\ mode = "plain"
    /\ callPc' = "returned"
    /\ result' = "Ok"
    /\ UNCHANGED <<thread_count, mode, to_comp_file_list, queue, spawned, joined,
                   wk, fs, dirs, env, probe, arch, app, self, arc_cal_func, rxAlive, chan, hist>>

\* Mutant: the caller's thread takes what is left in the queue before it
\* sends the last message (the call that lines 241-242 keep as a comment).
SendCompleteDrained ==
    /\ callPc = "join"
    /\ AllJoined
    /\ mode = "sender"
    /\ queue' = <<>>
    /\ chan' = Deliver(CompleteMsg)
    /\ hist' = Logged(hist, CompleteMsg, NoFile)
    /\ callPc' = "returned"
    /\ result' = "Ok"
    /\ UNCHANGED <<thread_count, mode, to_comp_file_list, spawned, joined,
                   wk, fs, dirs, env, probe, arch, app, self, arc_cal_func, rxAlive>>

\* compress_with_sender, lines 235-243.
SendComplete ==
    /\ callPc = "join"
    /\ AllJoined
    /\ mode = "sender"
    /\ chan' = Deliver(CompleteMsg)
    /\ hist' = Logged(hist, CompleteMsg, NoFile)
    /\ callPc' = "returned"
    /\ result' = "Ok"
    /\ UNCHANGED <<thread_count, mode, to_comp_file_list, queue, spawned, joined,
                   wk, fs, dirs, env, probe, arch, app, self, arc_cal_func, rxAlive>>

\* ------------------------------------------------------------------------
\* The worker loop: process (lines 297-348) and process_with_sender
\* (lines 350-412)
\* ------------------------------------------------------------------------
\* A worker between two items: its locals are gone.
AtHead == [Idle EXCEPT !.pc = "head"]

\* while !queue.is_empty()
IsEmpty(w) ==
    /\ wk[w].pc = "head"
    /\ wk' = [wk EXCEPT ![w].pc = IF queue = <<>> THEN "done" ELSE "pop"]
    /\ UNCHANGED <<thread_count, callPc, mode, result, to_comp_file_list, queue,
                   spawned, joined, fs, dirs, env, probe, arch, app, self, arc_cal_func, rxAlive, chan, hist>>

\* Mutant: pop hands the head out and leaves it in the queue.
DequeuedPeek(q) == q

\* SegQueue::pop takes the head out of the queue.
Dequeued(q) == Tail(q)

\* match queue.pop(): None => break, Some(file) => the item is this worker's
Pop(w) ==
    /\ wk[w].pc = "pop"
    /\ IF queue = <<>>
       THEN /\ wk' = [wk EXCEPT ![w].pc = "done"]
            /\ UNCHANGED <<queue, hist>>
       ELSE /\ queue' = Dequeued(queue)
            /\ wk' = [wk EXCEPT ![w] = [Idle EXCEPT !.pc = "mkdir", !.file = Head(queue)]]
            /\ hist' = [hist EXCEPT !.pops[Head(queue)] = @ + 1]
    /\ UNCHANGED <<thread_count, callPc, mode, result, to_comp_file_list, spawned,
                   joined, fs, dirs, env, probe, arch, app, self, arc_cal_func, rxAlive, chan>>

\* The directory and its ancestors, as create_dir_all makes them.
Ancestors(d) == {SubSeq(d, 1, k) : k \in 1..Len(d)}

\* compress_to_jpg, lines 181-183: <target_dir>/<stem>.jpg
target_file(f, d) == File(d, set_extension(file_stem(f.name), "jpg"))

\* compress_to_jpg, lines 184-189: the two is_file() tests.  file_name is ""
\* for a name that is not UTF-8, and target_dir.join("") is no file.
AlreadyExists(f, d) ==
    \/ to_str_ok(f) /\ File(d, f.name) \in DOMAIN fs
    \/ target_file(f, d) \in DOMAIN fs

\* Lines 313-336 / 367-390: mirror the parent directory under the destination,
\* create it when missing, and hand the file to a Compressor.  Each failure
\* is printed and the loop continues with the next item.
Mkdir(w) ==
    /\ wk[w].pc = "mkdir"
    /\ LET f == wk[w].file
           sp == strip_prefix(f.dir, original_path)
           new_dest_dir == join(destination_path, sp.rel)
           created == Ancestors(new_dest_dir) \cap env.uncreatable = {}
       IN  IF ~sp.ok \/ (new_dest_dir \notin dirs /\ ~created)
           THEN /\ wk' = [wk EXCEPT ![w] = AtHead]
                /\ hist' = [hist EXCEPT !.outcome[f] = "NoDir"]
                /\ dirs' = dirs
           ELSE /\ dirs' = dirs \cup Ancestors(new_dest_dir)
                /\ wk' = [wk EXCEPT ![w].pc = "check", ![w].dest = new_dest_dir,
                                    ![w].conflict = \/ File(new_dest_dir, f.name) \in DOMAIN fs
                                                    \/ target_file(f, new_dest_dir) \in DOMAIN fs]
                /\ hist' = hist
    /\ UNCHANGED <<thread_count, callPc, mode, result, to_comp_file_list, queue,
                   spawned, joined, fs, env, probe, arch, app, self, arc_cal_func, rxAlive, chan>>

\* compress_to_jpg returns r for worker w's item.
Returned(w, r) == [wk EXCEPT ![w].pc = "report", ![w].res = r]

\* The thread of worker w panics.
Panicked(w) == [wk EXCEPT ![w].pc = "panicked"]

\* compress_to_jpg, lines 164-194 and 207-209: the existence tests, then the
\* choice between converting and taking the file as it is.
Check(w) ==
    /\ wk[w].pc = "check"
    /\ LET f == wk[w].file
       IN  IF AlreadyExists(f, wk[w].dest)
           THEN /\ wk' = Returned(w, "AlreadyExists")
                /\ hist' = [hist EXCEPT !.outcome[f] = "AlreadyExists"]
           ELSE /\ wk' = IF extension(f.name) \notin {"jpg", "jpeg"}
                          THEN [wk EXCEPT ![w].pc = "convert"]
                          ELSE [wk EXCEPT ![w].pc = "decode", ![w].cur = f]
                /\ hist' = hist
    /\ UNCHANGED <<thread_count, callPc, mode, result, to_comp_file_list, queue,
                   spawned, joined, fs, dirs, env, probe, arch, app, self, arc_cal_func, rxAlive, chan>>

\* convert_to_jpg, lines 89-101: the path of the converted file.
converted_path(f) == File(f.dir, set_extension(file_stem(f.name), "jpg"))

\* Lines 195-206: convert_to_jpg re-saves the image beside the original; when
\* that fails the original is copied into the target directory and the
\* pipeline returns an error (the copy's own error when the copy fails).
Convert(w) ==
    /\ wk[w].pc = "convert"
    /\ LET f == wk[w].file
           p == converted_path(f)
           copy == File(wk[w].dest, f.name)
       IN  IF f \in DOMAIN fs /\ Decodable(fs[f])
           THEN /\ fs' = (p :> Content(fs[f].src, "conv")) @@ fs
                /\ wk' = [wk EXCEPT ![w].pc = "decode", ![w].cur = p, ![w].conv = p]
                /\ hist' = [hist EXCEPT !.fswrites[f] = @ + 1]
           ELSE IF f \in DOMAIN fs /\ to_str_ok(f) /\ wk[w].dest \notin env.unwritable
           THEN /\ fs' = (copy :> fs[f]) @@ fs
                /\ wk' = Returned(w, "InvalidData")
                /\ hist' = [hist EXCEPT !.fswrites[f] = @ + 1,
                                        !.writes = @ \cup {[path |-> copy, item |-> f]},
                                        !.outcome[f] = "InvalidData"]
           ELSE /\ fs' = fs
                /\ wk' = Returned(w, "CopyError")
                /\ hist' = [hist EXCEPT !.outcome[f] = "CopyError"]
    /\ UNCHANGED <<thread_count, callPc, mode, result, to_comp_file_list, queue,
                   spawned, joined, dirs, env, probe, arch, app, self, arc_cal_func, rxAlive, chan>>

\* Mutant: the pipeline consults the default table whatever function the
\* Compressor holds.
heuristic_call_default_table(fn, image, origin_file_path) ==
    LET d == dimensions(image)
        file_size == IF origin_file_path \in DOMAIN fs
                     THEN metadata_len(fs[origin_file_path]) ELSE 0
    IN  [fn |-> fn, width |-> d.width, height |-> d.height, file_size |-> file_size,
         factor |-> default_cal_func(d.width, d.height, file_size)]

\* Lines 214-221: the call of the function the Compressor holds, with the
\* width and height of the image just opened and the length of the file at
\* the original path (0 when its metadata cannot be read).
heuristic_call(fn, image, origin_file_path) ==
    LET d == dimensions(image)
        file_size == IF origin_file_path \in DOMAIN fs
                     THEN metadata_len(fs[origin_file_path]) ELSE 0
    IN  [fn |-> fn, width |-> d.width, height |-> d.height, file_size |-> file_size,
         factor |-> call_cal_func(fn, d.width, d.height, file_size)]

\* Lines 212-221: print the current file's path (to_str().unwrap() panics on
\* a path that is not UTF-8) and open it; the ? returns the decode error.
\* Then read the original's length and call the heuristic.
Decode(w) ==
    /\ wk[w].pc = "decode"
    /\ LET f == wk[w].file
           c == wk[w].cur
       IN  IF ~to_str_ok(c)
           THEN /\ wk' = Panicked(w)
                /\ hist' = [hist EXCEPT !.outcome[f] = "panic"]
           ELSE IF c \in DOMAIN fs /\ Decodable(fs[c])
           THEN /\ wk' = [wk EXCEPT ![w].pc = "resize",
                                    ![w].cal = Append(@, heuristic_call(arc_cal_func[w], fs[c], f))]
                /\ hist' = hist
           ELSE /\ wk' = Returned(w, "DecodeError")
                /\ hist' = [hist EXCEPT !.outcome[f] = "DecodeError"]
    /\ UNCHANGED <<thread_count, callPc, mode, result, to_comp_file_list, queue,
                   spawned, joined, fs, dirs, env, probe, arch, app, self, arc_cal_func, rxAlive, chan>>

\* Mutant: the target file is created before the image is resized and
\* encoded.
ResizeAfterCreate(w) ==
    /\ wk[w].pc = "resize"
    /\ LET f == wk[w].file
           t == target_file(f, wk[w].dest)
       IN  /\ fs' = (t :> Content(f, "none")) @@ fs
           /\ IF ~(f \in DOMAIN fs /\ Decodable(fs[f]))
              THEN /\ wk' = Returned(w, "ResizeError")
                   /\ hist' = [hist EXCEPT !.outcome[f] = "ResizeError",
                                           !.writes = @ \cup {[path |-> t, item |-> f]}]
              ELSE IF ~Encodable(fs[f])
              THEN /\ wk' = Returned(w, "EncodeError")
                   /\ hist' = [hist EXCEPT !.outcome[f] = "EncodeError",
                                           !.writes = @ \cup {[path |-> t, item |-> f]}]
              ELSE /\ wk' = [wk EXCEPT ![w].pc = "write", ![w].resized = f,
                                       ![w].data = Content(fs[f].src, "comp")]
                   /\ hist' = [hist EXCEPT !.writes = @ \cup {[path |-> t, item |-> f]}]
    /\ UNCHANGED <<thread_count, callPc, mode, result, to_comp_file_list, queue,
                   spawned, joined, dirs, env, probe, arch, app, self, arc_cal_func, rxAlive, chan>>

\* Lines 223-224: resize opens the file at the original path again
\* (self.resize(origin_file_path, size_ratio)), and compress encodes the
\* resized pixels; each ? returns its error.
Resize(w) ==
    /\ wk[w].pc = "resize"
    /\ LET f == wk[w].file
       IN  IF ~(f \in DOMAIN fs /\ Decodable(fs[f]))
           THEN /\ wk' = Returned(w, "ResizeError")
                /\ hist' = [hist EXCEPT !.outcome[f] = "ResizeError"]
           ELSE IF ~Encodable(fs[f])
           THEN /\ wk' = Returned(w, "EncodeError")
                /\ hist' = [hist EXCEPT !.outcome[f] = "EncodeError"]
           ELSE /\ wk' = [wk EXCEPT ![w].pc = "write", ![w].resized = f,
                                    ![w].data = Content(fs[f].src, "comp")]
                /\ hist' = hist
    /\ UNCHANGED <<thread_count, callPc, mode, result, to_comp_file_list, queue,
                   spawned, joined, fs, dirs, env, probe, arch, app, self, arc_cal_func, rxAlive, chan>>

\* Lines 227-238: File::create truncates or creates the target file and the
\* encoded bytes are written; without a converted file the pipeline is done.
Write(w) ==
    /\ wk[w].pc = "write"
    /\ LET f == wk[w].file
           t == target_file(f, wk[w].dest)
       IN  IF wk[w].dest \in env.unwritable
           THEN /\ wk' = Returned(w, "IoError")
                /\ hist' = [hist EXCEPT !.outcome[f] = "IoError"]
                /\ fs' = fs
           ELSE /\ fs' = (t :> wk[w].data) @@ fs
                /\ IF wk[w].conv = NoFile
                   THEN /\ wk' = Returned(w, "Ok")
                        /\ hist' = [hist EXCEPT !.outcome[f] = "Ok",
                                                !.fswrites[f] = @ + 1,
                                                !.writes = @ \cup {[path |-> t, item |-> f]}]
                   ELSE /\ wk' = [wk EXCEPT ![w].pc = "list"]
                        /\ hist' = [hist EXCEPT !.fswrites[f] = @ + 1,
                                                !.writes = @ \cup {[path |-> t, item |-> f]}]
    /\ UNCHANGED <<thread_count, callPc, mode, result, to_comp_file_list, queue,
                   spawned, joined, dirs, env, probe, arch, app, self, arc_cal_func, rxAlive, chan>>

\* delete_converted_file, lines 32-51: list the parent directory without the
\* converted file and look for its stem among the others' stems (to_str()
\* .unwrap() panics on a listed name that is not UTF-8).
ListSiblings(w) ==
    /\ wk[w].pc = "list"
    /\ LET f == wk[w].file
           p == wk[w].conv
           others == {g \in DOMAIN fs : strip_prefix(g.dir, p.dir).ok} \ {p}
       IN  IF \E g \in others : ~to_str_ok(g)
           THEN /\ wk' = Panicked(w)
                /\ hist' = [hist EXCEPT !.outcome[f] = "panic"]
           ELSE IF file_stem(p.name) \notin {file_stem(g.name) : g \in others}
           THEN /\ wk' = Returned(w, "NotFound")
                /\ hist' = [hist EXCEPT !.outcome[f] = "NotFound"]
           ELSE /\ wk' = [wk EXCEPT ![w].pc = "remove"]
                /\ hist' = hist
    /\ UNCHANGED <<thread_count, callPc, mode, result, to_comp_file_list, queue,
                   spawned, joined, fs, dirs, env, probe, arch, app, self, arc_cal_func, rxAlive, chan>>

\* delete_converted_file, lines 53-58, then line 238: remove the converted
\* file; the pipeline returns Ok(target_file), or remove_file's error.
RemoveTemp(w) ==
    /\ wk[w].pc = "remove"
    /\ LET f == wk[w].file
           p == wk[w].conv
       IN  IF p \in DOMAIN fs
           THEN /\ fs' = [g \in DOMAIN fs \ {p} |-> fs[g]]
                /\ wk' = Returned(w, "Ok")
                /\ hist' = [hist EXCEPT !.outcome[f] = "Ok", !.fswrites[f] = @ + 1]
           ELSE /\ fs' = fs
                /\ wk' = Returned(w, "RemoveError")
                /\ hist' = [hist EXCEPT !.outcome[f] = "RemoveError"]
    /\ UNCHANGED <<thread_count, callPc, mode, result, to_comp_file_list, queue,
                   spawned, joined, dirs, env, probe, arch, app, self, arc_cal_func, rxAlive, chan>>

\* The message process_with_sender sends for a pipeline result (lines 391-408).
ResultMsg(f, d, r) ==
    IF r = "Ok" THEN FileMsg(target_file(f, d).name) ELSE ErrorMsg(f.name, r)

\* Mutant: an Err of the pipeline ends the worker's loop.
AfterReportBreakOnErr(r, sendOk) ==
    IF r = "Ok" THEN AtHead ELSE [Idle EXCEPT !.pc = "done"]

\* Mutant: send(..).unwrap(), a send error panics the worker.
AfterReportUnwrapSend(r, sendOk) ==
    IF sendOk THEN AtHead ELSE [Idle EXCEPT !.pc = "panicked"]

\* Where the loop goes after the result was printed or sent: in both arms,
\* and whether or not send returned an Err, to the loop's head.
AfterReport(r, sendOk) == AtHead

\* Mutant: an item whose pipeline returned an Err is pushed to the queue again.
ReportRequeue(w) ==
    /\ wk[w].pc = "report"
    /\ LET f == wk[w].file
           m == ResultMsg(f, wk[w].dest, wk[w].res)
       IN  /\ IF mode = "sender"
              THEN /\ chan' = Deliver(m)
                   /\ hist' = Logged(hist, m, f)
              ELSE UNCHANGED <<chan, hist>>
           /\ wk' = [wk EXCEPT ![w] = AtHead]
           /\ queue' = IF wk[w].res = "Ok" THEN queue ELSE Append(queue, f)
    /\ UNCHANGED <<thread_count, callPc, mode, result, to_comp_file_list,
                   spawned, joined, fs, dirs, env, probe, arch, app, self, arc_cal_func, rxAlive>>

\* Lines 337-344 (process prints the result) and 391-408 (process_with_sender
\* sends it; a send error is only printed).
Report(w) ==
    /\ wk[w].pc = "report"
    /\ LET f == wk[w].file
           m == ResultMsg(f, wk[w].dest, wk[w].res)
       IN  IF mode = "sender"
           THEN /\ chan' = Deliver(m)
                /\ hist' = Logged(hist, m, f)
                /\ wk' = [wk EXCEPT ![w] = AfterReport(wk[w].res, rxAlive)]
           ELSE /\ UNCHANGED <<chan, hist>>
                /\ wk' = [wk EXCEPT ![w] = AfterReport(wk[w].res, TRUE)]
    /\ UNCHANGED <<thread_count, callPc, mode, result, to_comp_file_list, queue,
                   spawned, joined, fs, dirs, env, probe, arch, app, self, arc_cal_func, rxAlive>>

\* ------------------------------------------------------------------------
\* Specification
\* ------------------------------------------------------------------------
Next ==
    \/ \E n \in 0..MaxThreads : set_thread_count(n)
    \/ compress
    \/ \E alive \in BOOLEAN : compress_with_sender(alive)
    \/ SendTotal
    \/ Spawn
    \/ Join
    \/ ReturnOk
    \/ SendComplete
    \/ DropReceiver
    \/ \E w \in Workers :
          \/ IsEmpty(w)
          \/ Pop(w)
          \/ Mkdir(w)
          \/ Check(w)
          \/ Convert(w)
          \/ Decode(w)
          \/ Resize(w)
          \/ Write(w)
          \/ ListSiblings(w)
          \/ RemoveTemp(w)
          \/ Report(w)

Spec == Init /\ [][Next]_vars

\* ------------------------------------------------------------------------
\* A second specification: the further candidate files over a destination
\* that does not exist yet, and the same call made a second time once the
\* first has returned Ok.
\* ------------------------------------------------------------------------
MoreTrees == {t \in SUBSET MoreCandidates : Cardinality(t) <= MaxFiles}

InitTwice ==
    /\ self = new(<<"origin">>, <<"dest">>)
    /\ arch = NoArch
    /\ app = NoApp
    /\ arc_cal_func = [w \in Workers |-> NoFunc]
    /\ thread_count = 1
    /\ callPc = "new"
    /\ mode = "none"
    /\ result = "none"
    /\ to_comp_file_list = <<>>
    /\ queue = <<>>
    /\ spawned = 0
    /\ joined = 0
    /\ wk = [w \in Workers |-> Idle]
    /\ \E t \in MoreTrees :
          fs = [f \in t |-> Content(f, "orig")]
    /\ dirs = {}
    /\ env = DestEnv({}, {}, FALSE, {}, {})
    /\ rxAlive = TRUE
    /\ chan = <<>>
    /\ probe = NoProbe
    /\ hist = NoHist(1, Universe)

\* The files under the destination root.
DestFiles == {f \in DOMAIN fs : strip_prefix(f.dir, destination_path).ok}

\* compress / compress_with_sender called again on the same FolderCompressor
\* (same roots, same thread_count), the destination left as the first call
\* left it: the enumeration of lines 205 / 270, over a new queue and, for
\* compress_with_sender, a new channel.
Rerun ==
    /\ callPc = "returned"
    /\ result = "Ok"
    /\ hist.run = 1
    /\ \E l \in get_file_list(original_path) :
          /\ to_comp_file_list' = l
          /\ queue' = IF mode = "plain" THEN l ELSE <<>>
    /\ callPc' = IF mode = "plain" THEN AfterPush ELSE "total"
    /\ result' = "none"
    /\ spawned' = 0
    /\ joined' = 0
    /\ wk' = [w \in Workers |-> Idle]
    /\ env' = [env EXCEPT !.pre = DestFiles, !.dirs = dirs]
    /\ rxAlive' = TRUE
    /\ chan' = <<>>
    /\ hist' = NoHist(2, Universe)
    /\ arc_cal_func' = [w \in Workers |-> NoFunc]
    /\ UNCHANGED <<thread_count, mode, fs, dirs, probe, arch, app, self>>

NextTwice == Next \/ Rerun

SpecTwice == InitTwice /\ [][NextTwice]_vars

\* ------------------------------------------------------------------------
\* Properties
\* ------------------------------------------------------------------------
\* The items of this call, and those among them that were popped.
Items == {to_comp_file_list[i] : i \in 1..Len(to_comp_file_list)}

InQueue == {queue[i] : i \in 1..Len(queue)}

Returned_Ok == callPc = "returned" /\ result = "Ok"

PipelineErrors == {"AlreadyExists", "InvalidData", "CopyError", "DecodeError",
                   "ResizeError", "EncodeError", "IoError", "NotFound", "RemoveError"}

\* C1 (exclusive hand-off): every queued path is popped at most once, is
\* never back in the queue once popped, and no two workers hold the same path;
\* so at most one pipeline runs per path.
C1_ExclusiveHandOff ==
    /\ \A f \in Candidates : hist.pops[f] <= 1
    /\ \A f \in InQueue : hist.pops[f] = 0
    /\ \A v, w \in Workers :
          v # w /\ wk[v].file # NoFile => wk[v].file # wk[w].file

C1_Witness ==
    \E v, w \in Workers :
        /\ v # w
        /\ wk[v].file # NoFile /\ wk[w].file # NoFile
        /\ hist.pops[wk[v].file] = 1 /\ hist.pops[wk[w].file] = 1

\* C2 (full drain): when a call with at least one worker returns Ok, the
\* queue is empty and every enumerated path was popped and has a terminal
\* outcome.
C2_FullDrain ==
    (Returned_Ok /\ thread_count >= 1) =>
        /\ queue = <<>>
        /\ \A f \in Items : hist.pops[f] = 1 /\ hist.outcome[f] # "none"

C2_Witness ==
    /\ Returned_Ok
    /\ thread_count >= 1
    /\ Cardinality(Items) >= 2
    /\ \E f \in Items : hist.outcome[f] = "Ok"

\* C3 (failure isolation): an Err of the pipeline never ends a worker (a
\* worker is done only once the queue is empty), a call whose enumeration
\* succeeded never returns Err, a returned call has run every item although
\* some ended in an error, and the call is lost only to a panicked thread.
C3_FailureIsolation ==
    /\ \A w \in Workers : wk[w].pc = "done" => queue = <<>>
    /\ (callPc = "returned" /\ env.rootReadable) =>
          /\ result = "Ok"
          /\ thread_count >= 1 => \A f \in Items : hist.outcome[f] # "none"
    /\ callPc = "panicked" => \E w \in Workers : wk[w].pc = "panicked"

C3_Witness ==
    /\ Returned_Ok
    /\ thread_count = 1
    /\ \E f, g \in Items :
          /\ hist.outcome[f] \in PipelineErrors
          /\ hist.outcome[g] = "Ok"
          /\ \E i, j \in 1..Len(to_comp_file_list) :
                i < j /\ to_comp_file_list[i] = f /\ to_comp_file_list[j] = g

\* C4 (no overwrite of what is already there), as claimed: an input whose
\* <stem>.jpg or own name is a file of the destination directory when its
\* pipeline starts gets AlreadyExists and nothing is converted, copied or
\* written for it; the files that were at the destination keep their content.
C4_ExistingNeverOverwritten ==
    /\ \A w \in Workers :
          wk[w].conflict =>
              /\ wk[w].pc \in {"check", "report"}
              /\ wk[w].pc = "report" => wk[w].res = "AlreadyExists"
              /\ hist.fswrites[wk[w].file] = 0
    /\ \A p \in env.pre : p \in DOMAIN fs /\ fs[p] = Content(p, "pre")

\* C5 (no overwrite under concurrency), as claimed: an output path is
\* written for at most one input.
C5_OutputWrittenOnce ==
    \A a, b \in hist.writes : a.path = b.path => a.item = b.item

\* A step of some worker thread.
WorkerStep ==
    \E w \in Workers :
        \/ IsEmpty(w) \/ Pop(w) \/ Mkdir(w) \/ Check(w) \/ Convert(w) \/ Decode(w)
        \/ Resize(w) \/ Write(w) \/ ListSiblings(w) \/ RemoveTemp(w) \/ Report(w)

\* C6 (join-all): when the call has returned every spawned worker has left
\* its loop, and no worker can take a step (pop, write or send) any more.
C6_JoinAll ==
    callPc = "returned" =>
        /\ \A w \in Workers : wk[w].pc = IF w <= spawned THEN "done" ELSE "idle"
        /\ result = "Ok" => spawned = thread_count
        /\ ~ENABLED WorkerStep

C6_Witness ==
    /\ Returned_Ok
    /\ thread_count >= 2
    /\ Cardinality(Items) >= 2
    /\ \A w \in 1..thread_count : wk[w].pc = "done"

\* C7 (enumeration failure is the only fatal error): a returned call gave
\* Err exactly when the root could not be enumerated, and then no worker
\* was spawned, no message was sent and the destination is as it was.
C7_OnlyEnumerationFatal ==
    /\ callPc = "returned" => (result = "Err" <=> ~env.rootReadable)
    /\ result = "Err" =>
          /\ callPc = "returned"
          /\ spawned = 0
          /\ \A w \in Workers : wk[w] = Idle
          /\ hist.sends = <<>> /\ chan = <<>>
          /\ hist.writes = {} /\ dirs = env.dirs /\ DestFiles = env.pre

C7_Witness ==
    /\ result = "Err"
    /\ thread_count >= 2
    /\ DOMAIN fs # env.pre

\* C8 (one progress message per item), as claimed: with a live receiver
\* every item that was popped and is no longer held by a worker has exactly
\* one message on the channel.
C8_OneMessagePerItem ==
    (mode = "sender" /\ rxAlive) =>
        \A f \in Candidates :
            (hist.pops[f] = 1 /\ \A w \in Workers : wk[w].file # f) =>
                /\ hist.msgs[f] = 1
                /\ \E i \in 1..Len(chan) : chan[i].kind \in {"file", "error"}

\* C9 (sentinel ordering): the total is the first message sent and is sent
\* once, with the number of paths pushed to the queue; "Compress complete!"
\* is sent only by the returning call, once, and is the last message sent.
C9_SentinelOrdering ==
    (mode = "sender" /\ env.rootReadable) =>
        LET s == hist.sends
            popped == {f \in Candidates : hist.pops[f] > 0}
        IN  /\ callPc = "total" => s = <<>>
            /\ callPc # "total" =>
                  /\ Len(s) >= 1
                  /\ s[1].msg = TotalMsg(Len(queue) + Cardinality(popped))
            /\ \A i \in 2..Len(s) : s[i].msg.kind # "total"
            /\ \A i \in 1..Len(s) :
                  s[i].msg.kind = "complete" => i = Len(s) /\ callPc = "returned"
            /\ callPc = "returned" => s[Len(s)].msg = CompleteMsg

C9_Witness ==
    /\ mode = "sender"
    /\ Returned_Ok
    /\ thread_count >= 2
    /\ Len(hist.sends) >= 4
    /\ hist.sends[1].msg.kind = "total"
    /\ \A i \in 2..3 : hist.sends[i].msg.kind \in {"file", "error"}

\* C10 (send failures are not fatal): once a send has failed, still no
\* worker ends before the queue is empty, no thread panics but in the
\* pipeline, and a returned call gave Ok, ran every item and left the output
\* file of every item whose pipeline gave Ok.
C10_SendFailuresIgnored ==
    (mode = "sender" /\ hist.lost) =>
        /\ \A w \in Workers :
              /\ wk[w].pc = "done" => queue = <<>>
              /\ wk[w].pc = "panicked" =>
                    wk[w].file \in Candidates /\ hist.outcome[wk[w].file] = "panic"
        /\ callPc = "returned" =>
              /\ result = "Ok"
              /\ thread_count >= 1 =>
                    \A f \in Items :
                        /\ hist.outcome[f] # "none"
                        /\ hist.outcome[f] = "Ok" =>
                              \E t \in DestFiles : [path |-> t, item |-> f] \in hist.writes

C10_Witness ==
    /\ mode = "sender"
    /\ Returned_Ok
    /\ ~rxAlive
    /\ Len(to_comp_file_list) >= 2
    /\ \E f \in Items : hist.outcome[f] = "Ok" /\ hist.msgs[f] = 1

\* The directory of the destination tree that mirrors the directory of f.
MirroredDir(f) == join(destination_path, strip_prefix(f.dir, original_path).rel)

\* C11 (destination mirroring), as claimed: every file written under the
\* destination for an input lies in the mirrored directory of the input; the
\* verbatim copy of a conversion failure has the input's name, every other
\* output is named <stem of the input>.jpg; and the destination holds nothing
\* but what was there before and what was written for some input.
C11_DestinationMirroring ==
    /\ \A wr \in hist.writes :
          /\ wr.path.dir = MirroredDir(wr.item)
          /\ wr.path.name = IF hist.outcome[wr.item] = "InvalidData"
                            THEN wr.item.name
                            ELSE file_stem(wr.item.name) \o <<"jpg">>
    /\ DestFiles \subseteq env.pre \cup {wr.path : wr \in hist.writes}

\* C12 (idempotence of a repeated run), as claimed: during the second call
\* no file that the destination held when the call began is written, and
\* every input whose pipeline has ended got AlreadyExists.
C12_SecondRunAlreadyExists ==
    hist.run = 2 =>
        /\ \A wr \in hist.writes : wr.path \notin env.pre
        /\ \A f \in DOMAIN hist.outcome : hist.outcome[f] \in {"none", "AlreadyExists"}

\* C14 (conversion failure falls back to a verbatim copy), as claimed: when
\* the pipeline of an input that is no jpg/jpeg has returned because the
\* conversion failed, and the destination directory can be written, the
\* destination directory holds a file of the input's name with the input's
\* bytes and no <stem>.jpg was written for the input.
C14_CopyOnConversionFailure ==
    \A w \in Workers :
        LET f == wk[w].file
        IN  (/\ wk[w].pc = "report"
             /\ wk[w].res \in {"InvalidData", "CopyError"}
             /\ wk[w].dest \notin env.unwritable) =>
                /\ extension(f.name) \notin {"jpg", "jpeg"}
                /\ File(wk[w].dest, f.name) \in DOMAIN fs
                /\ fs[File(wk[w].dest, f.name)] = Content(f, "orig")
                /\ [path |-> target_file(f, wk[w].dest), item |-> f] \notin hist.writes

\* image::open fails on the bytes the input had when it was enumerated.
Unopenable(f) == ~Decodable(Content(f, "orig"))

\* C15 (copy on unopenable file), as claimed: when compress_to_jpg has run
\* for an input that the image library cannot open, whatever its extension,
\* and has not stopped at the existence tests, the target directory (if it
\* can be written) holds a copy of the input.
C15_CopyOnUnopenable ==
    \A w \in Workers :
        LET f == wk[w].file
        IN  (/\ wk[w].pc = "report"
             /\ Unopenable(f)
             /\ wk[w].res # "AlreadyExists"
             /\ wk[w].dest \notin env.unwritable) =>
                /\ File(wk[w].dest, f.name) \in DOMAIN fs
                /\ fs[File(wk[w].dest, f.name)] = Content(f, "orig")

\* C16 (no panic on per-file errors), as claimed: no worker thread panics
\* inside compress_to_jpg, and the join of the orchestrator never unwinds.
C16_NoPanic ==
    /\ \A w \in Workers : wk[w].pc # "panicked"
    /\ \A f \in DOMAIN hist.outcome : hist.outcome[f] # "panic"
    /\ callPc # "panicked"

\* The pipeline of worker w returns in this step.
Returns(w) == wk[w].pc # "report" /\ wk'[w].pc = "report"

\* The errors of the stages after the conversion: decode, resize and encode,
\* and the write of the destination file.
LaterStageErrors == {"DecodeError", "ResizeError", "EncodeError", "IoError"}

\* C17 (temp lifecycle), as claimed: only an input that is no jpg/jpeg has a
\* converted file; in the step in which the pipeline of such an input returns
\* Ok its converted file does not exist, and in the step in which it returns
\* the error of a later stage its converted file exists.
C17_TempLifecycle ==
    [][\A w \in Workers :
          LET f == wk'[w].file
              p == wk'[w].conv
          IN  /\ p # NoFile => extension(f.name) \notin {"jpg", "jpeg"}
              /\ (Returns(w) /\ p # NoFile /\ wk'[w].res = "Ok") => p \notin DOMAIN fs'
              /\ (Returns(w) /\ p # NoFile /\ wk'[w].res \in LaterStageErrors) =>
                    p \in DOMAIN fs']_vars

\* Some file other than p, listed under p's parent directory, has p's stem.
SameStemSibling(p) ==
    \E g \in DOMAIN fs \ {p} :
        strip_prefix(g.dir, p.dir).ok /\ file_stem(g.name) = file_stem(p.name)

\* C18 (guarded temp deletion), as claimed: a step that removes a worker's
\* converted file is taken only while another listed file has its stem; and
\* when the worker lists the directory and no other file has the stem, the
\* pipeline returns NotFound, the converted file is still there and the
\* destination file was written.
C18_GuardedDeletion ==
    [][\A w \in Workers :
          LET f == wk[w].file
              p == wk[w].conv
          IN  /\ (wk[w].pc = "remove" /\ wk'[w].pc # "remove" /\ p \notin DOMAIN fs') =>
                    SameStemSibling(p)
              /\ (wk[w].pc = "list" /\ wk'[w].pc # "list" /\ ~SameStemSibling(p)) =>
                    /\ wk'[w].pc = "report"
                    /\ wk'[w].res = "NotFound"
                    /\ p \in DOMAIN fs'
                    /\ [path |-> target_file(f, wk[w].dest), item |-> f] \in hist'.writes]_vars

\* The stages in which a worker that converted its input still owns the
\* converted file: from after convert_to_jpg up to the remove_file.
OwningStages == {"decode", "resize", "write", "list", "remove"}

\* C19 (temp ownership), as claimed: while a pipeline owns a converted file,
\* the file exists and holds the conversion of that pipeline's own input: no
\* other invocation has overwritten or deleted it.
C19_TempOwnership ==
    \A w \in Workers :
        (wk[w].conv # NoFile /\ wk[w].pc \in OwningStages) =>
            /\ wk[w].conv \in DOMAIN fs
            /\ fs[wk[w].conv] = Content(wk[w].file, "conv")

\* ------------------------------------------------------------------------
\* The run of a single worker as a function of the file system, for comparing
\* runs with different thread counts
\* ------------------------------------------------------------------------
\* One turn of process's loop for item f over the files F, uninterrupted: the
\* mirrored directory (lines 313-335) and compress_to_jpg (compressor.rs
\* 163-239).  The result is the files afterwards and whether the thread
\* panicked.
process_one(F, f) ==
    LET sp == strip_prefix(f.dir, original_path)
        d == join(destination_path, sp.rel)
        made == sp.ok /\ (d \in env.dirs \/ Ancestors(d) \cap env.uncreatable = {})
        exists == \/ to_str_ok(f) /\ File(d, f.name) \in DOMAIN F
                  \/ target_file(f, d) \in DOMAIN F
        converts == extension(f.name) \notin {"jpg", "jpeg"}
        opens == f \in DOMAIN F /\ Decodable(F[f])
        p == converted_path(f)
        F1 == IF converts THEN (p :> Content(F[f].src, "conv")) @@ F ELSE F
        cur == IF converts THEN p ELSE f
        t == target_file(f, d)
        F2 == (t :> Content(F1[f].src, "comp")) @@ F1
        others == {g \in DOMAIN F2 : strip_prefix(g.dir, p.dir).ok} \ {p}
        copied == IF f \in DOMAIN F /\ to_str_ok(f) /\ d \notin env.unwritable
                  THEN (File(d, f.name) :> F[f]) @@ F
                  ELSE F
    IN  IF ~made \/ exists THEN [fs |-> F, panic |-> FALSE]
        ELSE IF converts /\ ~opens THEN [fs |-> copied, panic |-> FALSE]
        ELSE IF ~to_str_ok(cur) THEN [fs |-> F1, panic |-> TRUE]
        ELSE IF ~(cur \in DOMAIN F1 /\ Decodable(F1[cur])) THEN [fs |-> F1, panic |-> FALSE]
        ELSE IF ~(f \in DOMAIN F1 /\ Decodable(F1[f])) THEN [fs |-> F1, panic |-> FALSE]
        ELSE IF ~Encodable(F1[f]) THEN [fs |-> F1, panic |-> FALSE]
        ELSE IF d \in env.unwritable THEN [fs |-> F1, panic |-> FALSE]
        ELSE IF ~converts THEN [fs |-> F2, panic |-> FALSE]
        ELSE IF \E g \in others : ~to_str_ok(g) THEN [fs |-> F2, panic |-> TRUE]
        ELSE IF file_stem(p.name) \notin {file_stem(g.name) : g \in others}
        THEN [fs |-> F2, panic |-> FALSE]
        ELSE [fs |-> [g \in DOMAIN F2 \ {p} |-> F2[g]], panic |-> FALSE]

\* process with one thread: the items in queue order, until the queue is
\* empty or the thread has panicked.
RECURSIVE process_alone(_, _)
process_alone(F, l) ==
    IF l = <<>> THEN F
    ELSE LET r == process_one(F, Head(l))
         IN  IF r.panic THEN r.fs ELSE process_alone(r.fs, Tail(l))

\* The files before the first call: the enumerated originals and what the
\* destination held.
FilesBefore ==
    [f \in Items \cup env.pre |-> IF f \in Items THEN Content(f, "orig") ELSE Content(f, "pre")]

\* The output files a file system holds: the compressed files under the
\* destination root.
Produced(F) ==
    {f \in DOMAIN F : strip_prefix(f.dir, destination_path).ok /\ F[f].form = "comp"}

\* The files a run with thread_count = 1 ends with.
FilesAlone == process_alone(FilesBefore, to_comp_file_list)

\* The first call is over (returned, or unwound by a panic) and no thread
\* has a step left.
FirstRunOver ==
    /\ hist.run = 1
    /\ callPc \in {"returned", "panicked"}
    /\ result # "Err"
    /\ ~ENABLED WorkerStep

\* C13 (thread-count invariance), as claimed: when a run with one or more
\* threads is over, the output files under the destination are those that
\* the run with one thread over the same tree, in the same queue order, ends
\* with.
C13_ThreadCountInvariance ==
    (FirstRunOver /\ thread_count >= 1) => Produced(fs) = Produced(FilesAlone)

\* ------------------------------------------------------------------------
\* A specification that calls the default heuristic (lib.rs,
\* default_cal_func) on pairs of arguments
\* ------------------------------------------------------------------------
\* The byte sizes the function is called with: each threshold, its two
\* neighbours, the sizes of the spec's example, 0 and a large size.
ProbedSizes ==
    {0, 50000, 99999, 100000, 100001, 150000, 299999, 300000, 300001, 400000,
     499999, 500000, 500001, 700000, 999999, 1000000, 1000001, 2000000,
     4999999, 5000000, 5000001, 6000000, 2000000000}

\* The image dimensions the function is called with.
ProbedDims == {[width |-> 0, height |-> 0], [width |-> 1, height |-> 4000],
               [width |-> 1920, height |-> 1080]}

ProbedArgs == {[width |-> d.width, height |-> d.height, file_size |-> s] :
                  d \in ProbedDims, s \in ProbedSizes}

\* A FolderCompressor right after new(), over an empty tree: no call was made.
NoCall ==
    /\ self = new(<<"origin">>, <<"dest">>)
    /\ arc_cal_func = [w \in Workers |-> NoFunc]
    /\ thread_count = 1
    /\ callPc = "new"
    /\ mode = "none"
    /\ result = "none"
    /\ to_comp_file_list = <<>>
    /\ queue = <<>>
    /\ spawned = 0
    /\ joined = 0
    /\ wk = [w \in Workers |-> Idle]
    /\ fs = << >>
    /\ dirs = {}
    /\ env = DestEnv({}, {}, FALSE, {}, {})
    /\ rxAlive = TRUE
    /\ chan = <<>>
    /\ hist = NoHist(1, Candidates)

\* The state of the orchestrator while only a pure function is looked at.
Quiescent ==
    /\ app = NoApp
    /\ NoCall

QuiescentVars == <<thread_count, callPc, mode, result, to_comp_file_list, queue,
                   spawned, joined, wk, fs, dirs, env, self, arc_cal_func, app, rxAlive, chan, hist>>

InitCalFunc ==
    /\ Quiescent
    /\ arch = NoArch
    /\ \E a, b \in ProbedArgs :
          probe = [fn |-> "default_cal_func", a |-> a, b |-> b, called |-> FALSE]

\* Two calls of (self.calculate_quality_and_size)(width, height, file_size)
\* with the default function.
CallCalFunc ==
    /\ probe.fn = "default_cal_func"
    /\ ~probe.called
    /\ probe' = [fn |-> "default_cal_func", a |-> probe.a, b |-> probe.b,
                 called |-> TRUE,
                 ra |-> default_cal_func(probe.a.width, probe.a.height, probe.a.file_size),
                 rb |-> default_cal_func(probe.b.width, probe.b.height, probe.b.file_size)]
    /\ UNCHANGED <<QuiescentVars, arch>>

NextCalFunc == CallCalFunc

SpecCalFunc == InitCalFunc /\ [][NextCalFunc]_vars

\* The table as the claim states it: thresholds with the row each selects.
ClaimedRows ==
    { [above |-> 5000000, row |-> Factor(60, 70)],
      [above |-> 1000000, row |-> Factor(65, 75)],
      [above |-> 500000, row |-> Factor(70, 80)],
      [above |-> 300000, row |-> Factor(75, 85)],
      [above |-> 100000, row |-> Factor(80, 90)] }

ClaimedRow(s) ==
    LET exceeded == {r \in ClaimedRows : s > r.above}
    IN  IF exceeded = {} THEN Factor(85, 100)
        ELSE (CHOOSE r \in exceeded : \A q \in exceeded : q.above <= r.above).row

\* C20 (default heuristic table): the function returns the row of the
\* largest threshold the byte size exceeds, else (85, 1.00); calls with the
\* same byte size agree whatever the width and height; quality and scale do
\* not increase when the byte size grows.
C20_DefaultTable ==
    (probe.fn = "default_cal_func" /\ probe.called) =>
        /\ probe.ra = ClaimedRow(probe.a.file_size)
        /\ probe.rb = ClaimedRow(probe.b.file_size)
        /\ probe.a.file_size = probe.b.file_size => probe.ra = probe.rb
        /\ probe.a.file_size <= probe.b.file_size =>
              /\ probe.rb.quality <= probe.ra.quality
              /\ probe.rb.size_ratio <= probe.ra.size_ratio

C20_Witness ==
    /\ probe.fn = "default_cal_func" /\ probe.called
    /\ probe.a.file_size = 5000000 /\ probe.ra = Factor(65, 75)
    /\ probe.b.file_size = 5000001 /\ probe.rb = Factor(60, 70)
    /\ probe.a.width # probe.b.width

\* C21 (inclusive thresholds), as claimed: a byte size that equals a
\* threshold gets the row of that threshold.
C21_InclusiveThresholds ==
    (probe.fn = "default_cal_func" /\ probe.called) =>
        \A r \in ClaimedRows : probe.a.file_size = r.above => probe.ra = r.row

\* C21, amended: each threshold is an exclusive lower bound.  A byte size
\* that equals a threshold gets the row of the size one byte smaller, which
\* is not the row of the threshold, and the size one byte larger gets the
\* row of the threshold.
C21_ExclusiveThresholds ==
    (probe.fn = "default_cal_func" /\ probe.called) =>
        \A r \in ClaimedRows :
            /\ (probe.a.file_size = r.above /\ probe.b.file_size = r.above - 1) =>
                  probe.ra = probe.rb /\ probe.ra # r.row
            /\ probe.a.file_size = r.above + 1 => probe.ra = r.row

C21_Witness ==
    /\ probe.fn = "default_cal_func" /\ probe.called
    /\ probe.a.file_size = 100000 /\ probe.b.file_size = 99999
    /\ probe.ra = Factor(85, 100) /\ probe.rb = Factor(85, 100)

\* The worker threads that were started.
Started == {w \in Workers : wk[w].pc # "idle"}

\* C22 (exactly thread_count workers): there is one started thread per
\* handle and never more than thread_count; once the caller is past the spawn
\* loop (joining, returned Ok, or unwound) exactly thread_count threads were
\* spawned, so none is joined before the last is spawned; and during the call
\* thread_count does not change, no handle is lost and a thread is spawned
\* only in the spawn loop.
C22_ExactlyThreadCountWorkers ==
    /\ [](/\ Cardinality(Started) = spawned
          /\ spawned <= thread_count
          /\ joined <= spawned
          /\ (callPc \in {"join", "panicked"} \/ Returned_Ok \/ joined > 0) =>
                spawned = thread_count)
    /\ [][callPc # "new" =>
              /\ thread_count' = thread_count
              /\ spawned' >= spawned
              /\ spawned' # spawned => callPc = "spawn" /\ spawned' = spawned + 1]_vars

C22_Witness ==
    /\ Returned_Ok
    /\ thread_count = MaxThreads
    /\ spawned = MaxThreads
    /\ Len(to_comp_file_list) < thread_count
    /\ \E f \in Items : hist.outcome[f] = "Ok"

\* ------------------------------------------------------------------------
\* A third specification of the orchestrator: a FolderCompressor on which
\* both setters may be called before the call, over a destination that does
\* not exist yet
\* ------------------------------------------------------------------------
\* The files an origin tree of this specification may hold: the candidates
\* with a UTF-8 name and an image the encoder fails on.
ConfiguredCandidates ==
    {f \in Candidates : to_str_ok(f)} \cup {File(<<"origin">>, <<"e", "jpg">>)}

ConfiguredTrees == {t \in SUBSET ConfiguredCandidates : Cardinality(t) <= MaxFiles}

InitConfigured ==
    /\ self = new(<<"origin">>, <<"dest">>)
    /\ arch = NoArch
    /\ app = NoApp
    /\ arc_cal_func = [w \in Workers |-> NoFunc]
    /\ thread_count = 1
    /\ callPc = "new"
    /\ mode = "none"
    /\ result = "none"
    /\ to_comp_file_list = <<>>
    /\ queue = <<>>
    /\ spawned = 0
    /\ joined = 0
    /\ wk = [w \in Workers |-> Idle]
    /\ \E t \in ConfiguredTrees :
          fs = [f \in t |-> Content(f, "orig")]
    /\ dirs = {}
    /\ env = DestEnv({}, {}, FALSE, {}, {})
    /\ rxAlive = TRUE
    /\ chan = <<>>
    /\ probe = NoProbe
    /\ hist = NoHist(1, ConfiguredCandidates)

NextConfigured ==
    \/ Next
    \/ \E cal_func \in CalFuncs : set_cal_func(cal_func)

SpecConfigured == InitConfigured /\ [][NextConfigured]_vars

\* The heuristic calls made so far in the pipeline invocations under way.
HeuristicCalls == UNION {{wk[w].cal[i] : i \in 1..Len(wk[w].cal)} : w \in Workers}

\* C23 (defaults and setters): the FolderCompressor starts as new() builds
\* it, with one thread and the default function; set_thread_count changes
\* nothing but thread_count, set_cal_func nothing but the function, and
\* neither path ever changes; once the call has begun neither setting
\* changes, every thread spawned holds the function set last, every heuristic
\* call is a call of it, and past the spawn loop thread_count threads exist.
C23_DefaultsAndSetters ==
    /\ (thread_count = 1 /\ self.calculate_quality_and_size = "default_cal_func")
    /\ [](/\ \A w \in Started : arc_cal_func[w] = self.calculate_quality_and_size
          /\ \A c \in HeuristicCalls : c.fn = self.calculate_quality_and_size
          /\ callPc \in {"join", "returned"} => spawned = thread_count)
    /\ [][/\ thread_count' # thread_count => self' = self
          /\ self' # self =>
                /\ thread_count' = thread_count
                /\ self'.original_path = self.original_path
                /\ self'.destination_path = self.destination_path
          /\ callPc # "new" => thread_count' = thread_count /\ self' = self]_vars

C23_Witness ==
    /\ thread_count = MaxThreads
    /\ self.calculate_quality_and_size = "example_cal_func"
    /\ spawned = MaxThreads
    /\ \E c \in HeuristicCalls : c.fn = "example_cal_func"

\* ------------------------------------------------------------------------
\* The archiver: archive_root_dir (zip_archive/src/lib.rs) and
\* compress_root_dir_to_7z (zip_compressor/src/lib.rs), over the immediate
\* subdirectories of a root.  A name at the archiver's destination is the
\* sequence of its dot-separated parts.
\* ------------------------------------------------------------------------
Crates == {"zip_archive", "zip_compressor"}

\* The subdirectories a root may hold.
DirNames == {"a", "b", "c"}

DirTrees == {t \in SUBSET DirNames : Cardinality(t) <= MaxDirs}

\* compress_a_dir_to_7z: the archive path handed to the executable, relative
\* to dest.  zip_archive joins dest and the directory's relative path;
\* zip_compressor appends ".7z" to that.
zip_path(crate, d) == IF crate = "zip_archive" THEN <<d>> ELSE <<d, "7z">>

\* The file the executable writes for "a -t7z <archive>": the archive name;
\* an executable that adds the type's extension to a name that has none
\* writes <archive>.7z for such a name.
exec_output(p, appends) == IF Len(p) = 1 /\ appends THEN p \o <<"7z">> ELSE p

\* What may be at the destination for directory d before the first run:
\* nothing, the archive an earlier run wrote, or a directory of the archive
\* path's name.
DestBefore(crate, d, appends) ==
    { [file |-> exec_output(zip_path(crate, d), appends), dir |-> FALSE],
      [file |-> <<>>, dir |-> FALSE],
      [file |-> <<>>, dir |-> TRUE] }

InitArchive ==
    /\ Quiescent
    /\ probe = NoProbe
    /\ \E crate \in Crates, t \in DirTrees, n \in 0..MaxThreads, appends \in BOOLEAN :
       \E before \in [t -> UNION {DestBefore(crate, d, appends) : d \in t}] :
          /\ \A d \in t : before[d] \in DestBefore(crate, d, appends)
          /\ arch = [pc |-> "new", crate |-> crate, thread_count |-> n, root |-> t,
                     appends |-> appends,
                     queue |-> <<>>,
                     files |-> {before[d].file : d \in t} \ {<<>>},
                     dirs |-> {zip_path(crate, d) : d \in {e \in t : before[e].dir}},
                     made |-> [d \in t |-> before[d].file],
                     existed |-> {}, res |-> [d \in t |-> "none"],
                     execs |-> {}, rewritten |-> {}, run |-> 1]

\* archive_root_dir, lines 108-113 / compress_root_dir_to_7z, lines 73-89:
\* list the subdirectories and fill the queue.
archive_root_dir ==
    /\ arch.pc = "new"
    /\ \E l \in Orders(arch.root) :
          arch' = [arch EXCEPT !.pc = "run", !.queue = l]
    /\ UNCHANGED <<QuiescentVars, probe>>

\* compress_a_dir_to_7z for directory d: the tests on the archive path and
\* whether the executable is run (zip_archive lines 47-60, zip_compressor
\* lines 39-53).
compress_a_dir_to_7z(crate, d) ==
    LET p == zip_path(crate, d)
    IN  IF crate = "zip_archive"
        THEN (IF p \in arch.files \/ p \in arch.dirs
              THEN [res |-> "AlreadyExists", exec |-> FALSE]
              ELSE [res |-> "Ok", exec |-> TRUE])
        ELSE (IF p \in arch.dirs
              THEN [res |-> "Ok", exec |-> FALSE]
              ELSE [res |-> "Ok", exec |-> TRUE])

\* One turn of a worker's loop (process, zip_archive lines 67-76,
\* zip_compressor lines 58-69): pop a directory and archive it.  The
\* executable adds the directory to the archive, creating or rewriting the
\* file; it writes nothing where a directory has the file's name.
ArchiveProcess ==
    /\ arch.pc = "run"
    /\ arch.thread_count >= 1
    /\ arch.queue # <<>>
    /\ LET d == Head(arch.queue)
           r == compress_a_dir_to_7z(arch.crate, d)
           had == arch.made[d] # <<>> /\ arch.made[d] \in arch.files
           n == exec_output(zip_path(arch.crate, d), arch.appends)
           written == r.exec /\ n \notin arch.dirs
       IN  arch' = [arch EXCEPT
              !.queue = Tail(@),
              !.existed = IF had THEN @ \cup {d} ELSE @,
              !.res[d] = r.res,
              !.execs = IF r.exec THEN @ \cup {d} ELSE @,
              !.rewritten = IF written /\ n \in arch.files THEN @ \cup {n} ELSE @,
              !.files = IF written THEN @ \cup {n} ELSE @,
              !.made[d] = IF written THEN n ELSE @]
    /\ UNCHANGED <<QuiescentVars, probe>>

\* The threads have ended and the call returns Ok (zip_archive lines
\* 127-131, zip_compressor lines 92-100).
ArchiveReturn ==
    /\ arch.pc = "run"
    /\ arch.queue = <<>> \/ arch.thread_count = 0
    /\ arch' = [arch EXCEPT !.pc = "returned"]
    /\ UNCHANGED <<QuiescentVars, probe>>

\* The same call once more over the same root and destination.
ArchiveAgain ==
    /\ arch.pc = "returned"
    /\ arch.run = 1
    /\ \E l \in Orders(arch.root) :
          arch' = [arch EXCEPT !.pc = "run", !.queue = l, !.run = 2,
                               !.existed = {}, !.execs = {}, !.rewritten = {},
                               !.res = [d \in arch.root |-> "none"]]
    /\ UNCHANGED <<QuiescentVars, probe>>

NextArchive ==
    \/ archive_root_dir
    \/ ArchiveProcess
    \/ ArchiveReturn
    \/ ArchiveAgain

SpecArchive == InitArchive /\ [][NextArchive]_vars

\* C24 (archiver skip), as claimed: every directory that was popped while
\* its archive file was at the destination got AlreadyExists, the
\* executable was not run for it, and no archive that existed was rewritten.
C24_ArchiverSkip ==
    arch.pc # "none" =>
        /\ \A d \in arch.existed :
              arch.res[d] = "AlreadyExists" /\ d \notin arch.execs
        /\ arch.rewritten = {}

\* C25 (input files are never damaged), as claimed: every file that was
\* enumerated under the origin root is still there and holds the bytes it
\* had when the call started.
C25_InputsNeverDamaged ==
    \A f \in Items : f \in DOMAIN fs /\ fs[f] = Content(f, "orig")

\* The errors of decoding, Resize and Encode.
SkipErrors == {"DecodeError", "ResizeError", "EncodeError"}

C27_ResizeSource ==
    \A w \in Workers :
        wk[w].resized # NoFile =>
            /\ wk[w].resized = IF wk[w].conv # NoFile THEN wk[w].conv ELSE wk[w].file
            /\ wk[w].resized = wk[w].cur

\* The results of a pipeline that ended at the existence tests or in the
\* copy fallback, and those of one that ended after the heuristic was called.
EndedBeforeDecode == {"AlreadyExists", "InvalidData", "CopyError"}

EndedAfterHeuristic == {"ResizeError", "EncodeError", "IoError", "NotFound", "RemoveError", "Ok"}

\* C28 (heuristic call discipline), as claimed: a pipeline invocation that
\* has reached Resize has called the heuristic exactly once, with the byte
\* size of the original input file; an invocation that has not yet decoded, or
\* that ended in AlreadyExists, in the copy fallback or in the decode error,
\* has not called it.
C28_HeuristicCallDiscipline ==
    \A w \in Workers :
        LET reached == \/ wk[w].pc \in {"resize", "write", "list", "remove"}
                       \/ wk[w].pc = "report" /\ wk[w].res \in EndedAfterHeuristic
            before == \/ wk[w].pc \in {"mkdir", "check", "convert", "decode"}
                      \/ wk[w].pc = "report" /\ wk[w].res \in EndedBeforeDecode \cup {"DecodeError"}
        IN  /\ reached => Len(wk[w].cal) = 1
            /\ before => wk[w].cal = <<>>
            /\ \A i \in 1..Len(wk[w].cal) :
                  wk[w].cal[i].file_size = metadata_len(Content(wk[w].file, "orig"))

\* C29 (the injected heuristic is the one used): every thread of a call holds
\* the function the FolderCompressor holds, so all threads of one call hold
\* the same one; every heuristic call of a thread is a call of the function
\* that thread holds and its Factor is that function's result for the
\* arguments passed; once a substitute was set no Factor comes from the
\* default table.
C29_InjectedHeuristicUsed ==
    /\ \A w \in Started : arc_cal_func[w] = self.calculate_quality_and_size
    /\ \A v, w \in Started : arc_cal_func[v] = arc_cal_func[w]
    /\ \A w \in Workers : \A i \in 1..Len(wk[w].cal) :
          LET c == wk[w].cal[i]
          IN  /\ c.fn = arc_cal_func[w]
              /\ c.factor = call_cal_func(self.calculate_quality_and_size,
                                          c.width, c.height, c.file_size)
              /\ self.calculate_quality_and_size = "example_cal_func" =>
                    /\ c.factor = Factor(75, 70)
                    /\ c.factor # default_cal_func(c.width, c.height, c.file_size)

C29_Witness ==
    /\ self.calculate_quality_and_size = "example_cal_func"
    /\ \E v, w \in Started :
          /\ v # w
          /\ wk[v].cal # <<>> /\ wk[w].cal # <<>>
          /\ wk[v].cal[1].file_size # wk[w].cal[1].file_size
          /\ wk[v].cal[1].factor = Factor(75, 70)
          /\ wk[w].cal[1].factor = Factor(75, 70)

\* ------------------------------------------------------------------------
\* Resize and encode: Compressor::resize and Compressor::compress
\* (compressor.rs:103-142) as compress_to_jpg chains them (lines 223-224),
\* for images of up to MaxDim x MaxDim pixels.
\* ------------------------------------------------------------------------

\* The size ratios a Factor can carry here, in hundredths: the rows of
\* default_cal_func and the examples' 0.7.
SizeRatios == {70, 75, 80, 85, 90, 100}

Dims(width, height) == [width |-> width, height |-> height]

\* Lines 134-135, 138-139: (width as f32 * resize_ratio) as u32 truncates.
scaled(length, resize_ratio) == (length * resize_ratio) \div 100

\* DynamicImage::resize(nwidth, nheight, filter): the image library keeps the
\* aspect ratio and rounds, so the result need not be nwidth x nheight; any
\* size of at least one pixel each way is allowed for.
resized_imgs(img, nwidth, nheight) ==
    {Dims(rw, rh) : rw \in 1..MaxDim, rh \in 1..MaxDim}

\* DynamicImage::to_rgb8().to_vec(): three bytes a pixel, row after row.
to_rgb8_to_vec(img) == [i \in 1..(img.width * img.height * 3) |-> 0]

\* Mutant: resize returns the dimensions it asked the library for.
resize_requested(img, resize_ratio, resized_img) ==
    [resized_img_data |-> to_rgb8_to_vec(resized_img),
     target_width |-> scaled(img.width, resize_ratio),
     target_height |-> scaled(img.height, resize_ratio)]

\* Compressor::resize, line 141: the buffer of the resized image with that
\* image's own width and height.
resize(img, resize_ratio, resized_img) ==
    [resized_img_data |-> to_rgb8_to_vec(resized_img),
     target_width |-> resized_img.width,
     target_height |-> resized_img.height]

InitResize ==
    /\ Quiescent
    /\ arch = NoArch
    /\ \E width, height \in 1..MaxDim, resize_ratio \in SizeRatios :
          probe = [fn |-> "resize", pc |-> "resize", img |-> Dims(width, height),
                   resize_ratio |-> resize_ratio]

\* Line 223: self.resize(origin_file_path, size_ratio); its three results
\* are the arguments of self.compress at line 224.
CallResize ==
    /\ probe.fn = "resize"
    /\ probe.pc = "resize"
    /\ \E resized_img \in resized_imgs(probe.img, scaled(probe.img.width, probe.resize_ratio),
                                       scaled(probe.img.height, probe.resize_ratio)) :
          LET r == resize(probe.img, probe.resize_ratio, resized_img)
          IN  probe' = [fn |-> "resize", pc |-> "compress", img |-> probe.img,
                        resize_ratio |-> probe.resize_ratio, resized_img |-> resized_img,
                        resized_img_data |-> r.resized_img_data,
                        target_width |-> r.target_width,
                        target_height |-> r.target_height,
                        line |-> 0, written |-> <<>>, scanlines |-> <<>>]
    /\ UNCHANGED <<QuiescentVars, arch>>

\* usize subtraction target_height - 1 of line 115 in a build without
\* overflow checks: it wraps below zero to usize::MAX.  The largest integer
\* of the model checker stands for it: no line count reaches either.
usize_MAX == 2147483647

wrapping_pred(n) == IF n >= 1 THEN n - 1 ELSE usize_MAX

\* Mutant: the loop goes on while line <= target_height.
loop_break_late(line, target_height) == line > target_height

\* Lines 115-117: if line > target_height - 1 { break; }
loop_break(line, target_height) == line > wrapping_pred(target_height)

\* The probes that stand in Compressor::compress.
InCompress == probe.fn \in {"resize", "compress"} /\ probe.pc = "compress"

\* Line 115 in a build with overflow checks (the debug profile): 0 - 1 panics.
SubtractOverflows == probe.target_height = 0 /\ probe.overflow_checks

\* Lines 114-120: one turn of the loop; the slice of an out-of-range part of
\* the buffer panics.
write_scanlines ==
    /\ InCompress
    /\ ~SubtractOverflows
    /\ ~loop_break(probe.line, probe.target_height)
    /\ probe.line <= MaxDim
    /\ LET from == probe.line * probe.target_width * 3
           to == (probe.line + 1) * probe.target_width * 3
       IN  IF to > Len(probe.resized_img_data)
           THEN probe' = [probe EXCEPT !.pc = "panicked"]
           ELSE probe' = [probe EXCEPT
                            !.written = @ \o SubSeq(probe.resized_img_data, from + 1, to),
                            !.scanlines = Append(@, [line |-> probe.line, from |-> from, to |-> to]),
                            !.line = @ + 1]
    /\ UNCHANGED <<QuiescentVars, arch>>

\* Lines 115-117, 121: the loop breaks and the encoder finishes.
finish_compress ==
    /\ InCompress
    /\ ~SubtractOverflows
    /\ loop_break(probe.line, probe.target_height)
    /\ probe' = [probe EXCEPT !.pc = "encoded"]
    /\ UNCHANGED <<QuiescentVars, arch>>

NextResize == CallResize \/ write_scanlines \/ finish_compress

SpecResize == InitResize /\ [][NextResize]_vars

\* C30 (encode buffer invariant): whenever the encoder has been handed a
\* buffer with a target width and height, the buffer is exactly
\* target_width * target_height * 3 bytes long, whatever size the image
\* library resized to and whatever size it was asked for.
C30_EncodeBuffer ==
    (probe.fn = "resize" /\ probe.pc # "resize") =>
        Len(probe.resized_img_data) = probe.target_width * probe.target_height * 3

C30_Witness ==
    /\ probe.fn = "resize" /\ probe.pc = "encoded"
    /\ probe.resized_img # Dims(scaled(probe.img.width, probe.resize_ratio),
                                scaled(probe.img.height, probe.resize_ratio))
    /\ probe.target_height > 1
    /\ Len(probe.resized_img_data) = probe.target_width * probe.target_height * 3
    /\ probe.written = probe.resized_img_data

\* ------------------------------------------------------------------------
\* Compressor::compress alone (compressor.rs:103-127), for every target
\* width and height from 0 to MaxDim with a buffer of
\* target_width * target_height * 3 bytes, in a build with and in a build
\* without overflow checks.
\* ------------------------------------------------------------------------

InitCompress ==
    /\ Quiescent
    /\ arch = NoArch
    /\ \E target_width, target_height \in 0..MaxDim, overflow_checks \in BOOLEAN :
          probe = [fn |-> "compress", pc |-> "compress",
                   resized_img_data |-> to_rgb8_to_vec(Dims(target_width, target_height)),
                   target_width |-> target_width, target_height |-> target_height,
                   overflow_checks |-> overflow_checks,
                   line |-> 0, written |-> <<>>, scanlines |-> <<>>]

\* Line 115 with overflow checks: "attempt to subtract with overflow".
subtract_with_overflow ==
    /\ InCompress
    /\ SubtractOverflows
    /\ probe' = [probe EXCEPT !.pc = "panicked"]
    /\ UNCHANGED <<QuiescentVars, arch>>

NextCompress == write_scanlines \/ finish_compress \/ subtract_with_overflow

SpecCompress == InitCompress /\ [][NextCompress]_vars

\* C31 (scanline loop bounds): for a target width and height of at least 1
\* and a buffer of target_width * target_height * 3 bytes, the loop writes
\* the scanlines 0, 1, ... in this order, scanline i being the bytes
\* [i * target_width * 3, (i + 1) * target_width * 3), never slices at or
\* past the buffer's end, never panics, and has written exactly
\* target_height scanlines, the whole buffer, when the encoder finishes.
C31_ScanlineLoop ==
    (/\ probe.fn = "compress"
     /\ probe.target_width >= 1 /\ probe.target_height >= 1
     /\ Len(probe.resized_img_data) = probe.target_width * probe.target_height * 3) =>
        /\ probe.pc \in {"compress", "encoded"}
        /\ Len(probe.scanlines) = probe.line
        /\ probe.line <= probe.target_height
        /\ \A i \in 1..Len(probe.scanlines) :
              /\ probe.scanlines[i] = [line |-> i - 1,
                                       from |-> (i - 1) * probe.target_width * 3,
                                       to |-> i * probe.target_width * 3]
              /\ probe.scanlines[i].to <= Len(probe.resized_img_data)
        /\ probe.written = SubSeq(probe.resized_img_data, 1, probe.line * probe.target_width * 3)
        /\ probe.pc = "encoded" =>
              /\ Len(probe.scanlines) = probe.target_height
              /\ probe.written = probe.resized_img_data

C31_Witness ==
    /\ probe.fn = "compress" /\ probe.pc = "encoded"
    /\ probe.target_width = MaxDim /\ probe.target_height = MaxDim
    /\ Len(probe.scanlines) = MaxDim
    /\ probe.scanlines[MaxDim].to = Len(probe.resized_img_data)

\* C32 (zero-height encode), as claimed: with target_height = 0 the loop
\* writes no scanline and the encoder finishes; the subtraction of line 115
\* does not overflow and no slice is out of range, so nothing panics.
C32_ZeroHeight ==
    (probe.fn = "compress" /\ probe.target_height = 0) =>
        /\ probe.pc \in {"compress", "encoded"}
        /\ probe.scanlines = <<>>

\* The queue holds what is left of the enumerated list: one of its suffixes.
IsSuffix(q, l) == \E k \in 0..Len(l) : q = SubSeq(l, k + 1, Len(l))

\* C33 (queue monotonicity): the queue grows only in the step that fills it
\* with the enumerated list, while no worker has been spawned; once a worker
\* was spawned the queue is a suffix of that list and every step leaves it as
\* it is or takes exactly its head away, the item the popping worker then
\* holds; no step pushes, whatever the outcome of a pipeline.
C33_QueueMonotone ==
    /\ [](spawned > 0 => IsSuffix(queue, to_comp_file_list))
    /\ [][/\ Len(queue') > Len(queue) =>
                /\ spawned = 0 /\ spawned' = 0 /\ Started = {}
                /\ queue = <<>> /\ queue' = to_comp_file_list'
          /\ spawned > 0 =>
                \/ queue' = queue
                \/ /\ queue # <<>>
                   /\ queue' = Tail(queue)
                   /\ \E w \in Workers :
                         /\ wk[w].pc = "pop" /\ wk'[w].pc = "mkdir"
                         /\ wk'[w].file = Head(queue)
          /\ \A w \in Workers :
                (wk[w].pc = "pop" /\ wk'[w].pc = "mkdir") => Len(queue') = Len(queue) - 1]_vars

C33_Witness ==
    /\ callPc = "returned" /\ result = "Ok"
    /\ spawned = MaxThreads
    /\ Len(to_comp_file_list) = MaxFiles
    /\ queue = <<>>
    /\ \E f \in Items : hist.outcome[f] \notin {"none", "Ok"}
    /\ \A f \in Items : hist.pops[f] = 1

\* ------------------------------------------------------------------------
\* Progress.  The caller's thread and every spawned thread are scheduled by
\* the operating system, so a step of the program that stays possible is
\* taken in the end; every step of the pipeline ends (the file system, the
\* image library and the encoder answer).  Nothing makes the user of the
\* FolderCompressor call a setter or compress, nor the receiving end drop the
\* Receiver.
\* ------------------------------------------------------------------------

\* A step of the thread that runs compress or compress_with_sender.
CallerStep == SendTotal \/ Spawn \/ Join \/ ReturnOk \/ SendComplete

\* A step of the thread of worker w.
ThreadStep(w) ==
    \/ IsEmpty(w) \/ Pop(w) \/ Mkdir(w) \/ Check(w) \/ Convert(w) \/ Decode(w)
    \/ Resize(w) \/ Write(w) \/ ListSiblings(w) \/ RemoveTemp(w) \/ Report(w)

Scheduling == WF_vars(CallerStep) /\ \A w \in Workers : WF_vars(ThreadStep(w))

SpecScheduled == Spec /\ Scheduling

\* C34 (termination), as claimed: a worker at the head of its loop or at the
\* pop that finds the queue empty goes to the end of its loop; every spawned
\* worker's thread ends; and the call, once made, returns.
C34_Termination ==
    /\ [][\A w \in Workers :
            (wk[w].pc \in {"head", "pop"} /\ queue = <<>> /\ wk'[w] # wk[w]) =>
                wk'[w].pc = "done"]_vars
    /\ \A w \in Workers : (wk[w].pc # "idle") ~> Terminated(w)
    /\ (callPc # "new") ~> (callPc = "returned")

\* C35 (zero workers): with thread_count = 0 and a readable root no thread is
\* ever started and the call does not panic; when it has returned it gave
\* Ok, the queue still holds every enumerated path, nothing was popped,
\* written, created or removed, and compress_with_sender has sent the total
\* and then "Compress complete!", nothing else.
C35_ZeroWorkers ==
    (thread_count = 0 /\ callPc # "new" /\ env.rootReadable) =>
        /\ callPc \in {"total", "join", "returned"}
        /\ spawned = 0 /\ Started = {}
        /\ callPc = "returned" =>
              /\ result = "Ok"
              /\ queue = to_comp_file_list
              /\ \A f \in Items : hist.pops[f] = 0 /\ hist.outcome[f] = "none"
              /\ hist.writes = {}
              /\ DOMAIN fs = Items \cup env.pre
              /\ \A f \in Items : fs[f] = Content(f, "orig")
              /\ \A f \in env.pre : fs[f] = Content(f, "pre")
              /\ dirs = env.dirs
              /\ mode = "sender" =>
                    hist.sends = <<[msg |-> TotalMsg(Len(to_comp_file_list)), item |-> NoFile],
                                   [msg |-> CompleteMsg, item |-> NoFile]>>

C35_Witness ==
    /\ thread_count = 0
    /\ callPc = "returned" /\ result = "Ok"
    /\ mode = "sender"
    /\ Len(queue) = MaxFiles
    /\ chan = <<TotalMsg(MaxFiles), CompleteMsg>>

\* ------------------------------------------------------------------------
\* The two variants side by side.  What compress and compress_with_sender
\* have in common: everything but the channel, the record of what was sent,
\* and the extra program point at which compress_with_sender sends the total.
\* ------------------------------------------------------------------------
Common ==
    <<thread_count, queue, spawned, joined, wk, fs, dirs, env, self, arc_cal_func,
      hist.pops, hist.outcome, hist.writes, hist.fswrites, hist.run>>

\* The number of items a single thread pops from list l over files F: all of
\* them, or those up to the one whose pipeline panics.
RECURSIVE popped_alone(_, _)
popped_alone(F, l) ==
    IF l = <<>> THEN 0
    ELSE LET r == process_one(F, Head(l))
         IN  IF r.panic THEN 1 ELSE 1 + popped_alone(r.fs, Tail(l))

\* C36 (the sender and the non-sender variant agree): every step of
\* compress_with_sender changes what the variants have in common exactly as
\* the step of compress at the same point does: the enumeration and the
\* sending of the total together do what compress's enumeration and fill do,
\* a report leaves the worker at the head of its loop whether or not the send
\* failed, the final send is compress's return, losing the Receiver changes
\* nothing, and every other step is a step of the shared spawn loop, join
\* loop or pipeline.  With one thread, where the order of the list is the
\* whole schedule, both variants end with the files and the pops that the
\* list alone determines.
C36_VariantsAgree ==
    /\ []((FirstRunOver /\ thread_count = 1) =>
            /\ fs = FilesAlone
            /\ \A i \in 1..Len(to_comp_file_list) :
                  hist.pops[to_comp_file_list[i]] =
                      IF i <= popped_alone(FilesBefore, to_comp_file_list) THEN 1 ELSE 0)
    /\ [][mode' = "sender" =>
            \/ /\ callPc = "new"
               /\ Common' = Common
               /\ \/ callPc' = "new"
                  \/ callPc' = "total" /\ env.rootReadable
                       /\ to_comp_file_list' \in get_file_list(original_path)
                  \/ callPc' = "returned" /\ result' = "Err" /\ ~env.rootReadable
            \/ /\ callPc = "total"
               /\ \/ callPc' = "total" /\ Common' = Common
                  \/ /\ callPc' = AfterPush
                     /\ queue' = to_comp_file_list
                     /\ to_comp_file_list' = to_comp_file_list
                     /\ <<thread_count, spawned, joined, wk, fs, dirs, env, self, arc_cal_func,
                          hist.pops, hist.outcome, hist.writes, hist.fswrites>>'
                        = <<thread_count, spawned, joined, wk, fs, dirs, env, self, arc_cal_func,
                            hist.pops, hist.outcome, hist.writes, hist.fswrites>>
            \/ /\ callPc \notin {"new", "total"}
               /\ to_comp_file_list' = to_comp_file_list
               /\ \/ \E w \in Workers :
                        \/ IsEmpty(w) \/ Pop(w) \/ Mkdir(w) \/ Check(w) \/ Convert(w)
                        \/ Decode(w) \/ Resize(w) \/ Write(w) \/ ListSiblings(w)
                        \/ RemoveTemp(w)
                  \/ Spawn \/ Join
                  \/ Common' = Common /\ callPc' = callPc /\ result' = result
                  \/ Common' = Common /\ callPc = "join" /\ AllJoined
                       /\ callPc' = "returned" /\ result' = "Ok"
                  \/ \E w \in Workers :
                        /\ wk[w].pc = "report"
                        /\ wk' = [wk EXCEPT ![w] = AfterReport(wk[w].res, TRUE)]
                        /\ <<thread_count, queue, spawned, joined, fs, dirs, env, self,
                             arc_cal_func, hist.pops, hist.outcome, hist.writes, hist.fswrites,
                             callPc, result>>'
                           = <<thread_count, queue, spawned, joined, fs, dirs, env, self,
                               arc_cal_func, hist.pops, hist.outcome, hist.writes, hist.fswrites,
                               callPc, result>>]_vars

C36_Witness ==
    /\ mode = "sender" /\ ~rxAlive /\ hist.lost
    /\ FirstRunOver /\ result = "Ok"
    /\ thread_count = 1
    /\ Len(to_comp_file_list) = MaxFiles
    /\ fs = FilesAlone
    /\ Produced(fs) # {}

\* ------------------------------------------------------------------------
\* The archiver's pool: archive_root_dir and archive_root_dir_with_sender
\* (zip_archive/src/lib.rs:64-179) and compress_root_dir_to_7z
\* (zip_compressor/src/lib.rs:57-101) with their threads, step by step.
\* ------------------------------------------------------------------------

\* Directory names that are not UTF-8.
NonUtf8Dirs == {"w"}

PoolDirNames == DirNames \cup NonUtf8Dirs

PoolTrees == {t \in SUBSET PoolDirNames : Cardinality(t) <= MaxDirs}

\* zip_archive has both variants, zip_compressor only the one without a Sender.
PoolModes(crate) == IF crate = "zip_archive" THEN {"plain", "sender"} ELSE {"plain"}

\* A thread of the pool that was not spawned yet.
PoolIdle == [pc |-> "idle", dir |-> "", res |-> "none"]

PoolAtHead == [PoolIdle EXCEPT !.pc = "head"]

\* The messages of archive_root_dir_with_sender.
PoolMsg(kind, n, dir) == [kind |-> kind, n |-> n, dir |-> dir]

\* "Total archive directory count: <n>"
PoolTotalMsg(n) == PoolMsg("total", n, "")

\* "Archiving Complete!"
PoolCompleteMsg == PoolMsg("end", 0, "")

\* "7z archiving complete: <path>" or "7z archiving error occured!: <e>"
PoolResultMsg(d, r) == PoolMsg(IF r = "Ok" THEN "complete" ELSE "error", 0, d)

InitPool ==
    /\ Quiescent
    /\ probe = NoProbe
    /\ \E crate \in Crates, t \in PoolTrees, n \in 0..MaxThreads,
          readable \in BOOLEAN, alive \in BOOLEAN :
       \E variant \in PoolModes(crate), taken \in {{}, t \cap {"a"}} :
          arch = [pc |-> "new", crate |-> crate, mode |-> variant, thread_count |-> n,
                  root |-> t, readable |-> readable, rxAlive |-> alive,
                  list |-> <<>>, queue |-> <<>>, spawned |-> 0, joined |-> 0,
                  result |-> "none",
                  wk |-> [w \in Workers |-> PoolIdle],
                  files |-> {}, dirs |-> {zip_path(crate, d) : d \in taken},
                  pops |-> [d \in t |-> 0], calls |-> [d \in t |-> 0],
                  execs |-> [d \in t |-> 0], holder |-> [d \in t |-> 0],
                  sends |-> <<>>]

\* Where the caller goes once the queue is filled.
PoolAfterPush == IF arch.thread_count = 0 THEN "join" ELSE "spawn"

\* get_dir_list(&root) and, without a Sender, the filling of the queue
\* (zip_archive lines 108-113 and 138-144, zip_compressor lines 73-89).
\* ArrayQueue::new(0) of zip_compressor panics for an empty list.
PoolList ==
    /\ arch.pc = "new"
    /\ IF ~arch.readable
       THEN arch' = [arch EXCEPT !.pc = "returned", !.result = "Err"]
       ELSE \E l \in Orders(arch.root) :
              IF arch.crate = "zip_compressor" /\ l = <<>>
              THEN arch' = [arch EXCEPT !.pc = "panicked"]
              ELSE IF arch.mode = "sender"
              THEN arch' = [arch EXCEPT !.pc = "total", !.list = l]
              ELSE arch' = [arch EXCEPT !.pc = PoolAfterPush, !.list = l, !.queue = l]
    /\ UNCHANGED <<QuiescentVars, probe>>

\* archive_root_dir_with_sender, lines 146-154: send the total, fill the queue.
PoolSendTotal ==
    /\ arch.pc = "total"
    /\ arch' = [arch EXCEPT !.pc = PoolAfterPush, !.queue = arch.list,
                            !.sends = Append(@, PoolTotalMsg(Len(arch.list)))]
    /\ UNCHANGED <<QuiescentVars, probe>>

\* One turn of the spawn loop (zip_archive lines 118-126 and 159-168,
\* zip_compressor lines 93-97).
PoolSpawn ==
    /\ arch.pc = "spawn"
    /\ arch.spawned < arch.thread_count
    /\ arch' = [arch EXCEPT !.spawned = @ + 1,
                            !.wk[arch.spawned + 1] = PoolAtHead,
                            !.pc = IF arch.spawned + 1 = arch.thread_count
                                   THEN "join" ELSE "spawn"]
    /\ UNCHANGED <<QuiescentVars, probe>>

\* Mutant: join returns at once, whatever the thread is doing.
PoolTerminatedAtOnce(w) == TRUE

\* JoinHandle::join, or the end of the crossbeam scope, waits for the thread.
PoolTerminated(w) == arch.wk[w].pc \in {"done", "panicked"}

\* One turn of the join loop (zip_archive lines 127-129 and 170-172:
\* h.join().unwrap() panics when the thread panicked; zip_compressor lines
\* 92-98: the scope joins every thread).
PoolJoin ==
    /\ arch.pc = "join"
    /\ arch.joined < arch.thread_count
    /\ PoolTerminated(arch.joined + 1)
    /\ IF arch.wk[arch.joined + 1].pc = "panicked"
       THEN arch' = [arch EXCEPT !.pc = "panicked"]
       ELSE arch' = [arch EXCEPT !.joined = @ + 1]
    /\ UNCHANGED <<QuiescentVars, probe>>

\* The return (zip_archive lines 131 and 174-178, zip_compressor line 100).
PoolReturn ==
    /\ arch.pc = "join"
    /\ arch.joined = arch.thread_count
    /\ arch' = [arch EXCEPT !.pc = "returned", !.result = "Ok",
                            !.sends = IF arch.mode = "sender"
                                      THEN Append(@, PoolCompleteMsg) ELSE @]
    /\ UNCHANGED <<QuiescentVars, probe>>

\* while !queue.is_empty()
PoolIsEmpty(w) ==
    /\ arch.wk[w].pc = "head"
    /\ arch' = [arch EXCEPT !.wk[w].pc = IF arch.queue = <<>> THEN "done" ELSE "pop"]
    /\ UNCHANGED <<QuiescentVars, probe>>

\* match queue.pop(): None => break, Some(d) => d
PoolPop(w) ==
    /\ arch.wk[w].pc = "pop"
    /\ IF arch.queue = <<>>
       THEN arch' = [arch EXCEPT !.wk[w].pc = "done"]
       ELSE arch' = [arch EXCEPT !.queue = Dequeued(@),
                                 !.wk[w] = [pc |-> "archive", dir |-> Head(arch.queue),
                                            res |-> "none"],
                                 !.pops[Head(arch.queue)] = @ + 1,
                                 !.holder[Head(arch.queue)] = w]
    /\ UNCHANGED <<QuiescentVars, probe>>

\* compress_a_dir_to_7z up to the executable (zip_archive lines 38-58,
\* zip_compressor lines 27-50).  For a path that is not UTF-8
\* zip_archive panics at zip_path.to_str().unwrap() (line 51) and
\* zip_compressor returns the NotFound error (line 36).
PoolArchive(w) ==
    /\ arch.wk[w].pc = "archive"
    /\ LET d == arch.wk[w].dir
           r == compress_a_dir_to_7z(arch.crate, d)
       IN  IF d \in NonUtf8Dirs
           THEN IF arch.crate = "zip_archive"
                THEN arch' = [arch EXCEPT !.calls[d] = @ + 1, !.wk[w].pc = "panicked"]
                ELSE arch' = [arch EXCEPT !.calls[d] = @ + 1, !.wk[w].pc = "report",
                                          !.wk[w].res = "NotFound"]
           ELSE IF r.exec
           THEN arch' = [arch EXCEPT !.calls[d] = @ + 1, !.wk[w].pc = "exec"]
           ELSE arch' = [arch EXCEPT !.calls[d] = @ + 1, !.wk[w].pc = "report",
                                     !.wk[w].res = r.res]
    /\ UNCHANGED <<QuiescentVars, probe>>

\* exec.join()? (zip_archive line 60, zip_compressor line 51): the
\* executable runs and writes the archive, or cannot be run.
PoolExec(w) ==
    /\ arch.wk[w].pc = "exec"
    /\ LET d == arch.wk[w].dir
       IN  \E ran \in BOOLEAN :
              arch' = [arch EXCEPT
                         !.execs[d] = @ + 1,
                         !.files = IF ran THEN @ \cup {zip_path(arch.crate, d)} ELSE @,
                         !.wk[w].pc = "report",
                         !.wk[w].res = IF ran THEN "Ok" ELSE "ExecError"]
    /\ UNCHANGED <<QuiescentVars, probe>>

\* The match on the result (zip_archive lines 73-76 and 87-100,
\* zip_compressor lines 63-68): print, or send and only print a send error.
PoolReport(w) ==
    /\ arch.wk[w].pc = "report"
    /\ arch' = [arch EXCEPT
                  !.wk[w] = PoolAtHead,
                  !.sends = IF arch.mode = "sender"
                            THEN Append(@, PoolResultMsg(arch.wk[w].dir, arch.wk[w].res))
                            ELSE @]
    /\ UNCHANGED <<QuiescentVars, probe>>

NextPool ==
    \/ PoolList
    \/ PoolSendTotal
    \/ PoolSpawn
    \/ PoolJoin
    \/ PoolReturn
    \/ \E w \in Workers :
          \/ PoolIsEmpty(w)
          \/ PoolPop(w)
          \/ PoolArchive(w)
          \/ PoolExec(w)
          \/ PoolReport(w)

SpecPool == InitPool /\ [][NextPool]_vars

\* The directories some thread of the pool holds.
PoolHeld(w) == IF arch.wk[w].pc \in {"archive", "exec", "report"} THEN {arch.wk[w].dir} ELSE {}

\* What holds of the hand-off whatever the thread count: no directory is
\* popped twice, held by two threads, or passed to compress_a_dir_to_7z or to
\* the executable more often than it was popped; a returned call has joined
\* every thread it spawned.
PoolHandOff ==
    /\ \A d \in arch.root :
          /\ arch.pops[d] <= 1
          /\ arch.calls[d] <= arch.pops[d]
          /\ arch.execs[d] <= arch.calls[d]
    /\ \A v, w \in Workers : v # w => PoolHeld(v) \cap PoolHeld(w) = {}
    /\ (arch.pc = "returned" /\ arch.result = "Ok") =>
          /\ arch.spawned = arch.thread_count
          /\ \A w \in Workers :
                arch.wk[w].pc = IF w <= arch.thread_count THEN "done" ELSE "idle"

\* C37 (archiver hand-off), as claimed: for every thread count, when the
\* call has returned each listed subdirectory was popped by exactly one
\* worker and passed to the archiving routine exactly once.
C37_ArchiverHandOff ==
    arch.pc \notin {"none", "new", "run"} =>
        /\ PoolHandOff
        /\ (arch.pc = "returned" /\ arch.result = "Ok") =>
              \A d \in arch.root : arch.pops[d] = 1 /\ arch.calls[d] = 1

\* C37, amended: the above for every thread count of at least 1; with
\* thread count 0 the call returns Ok with every listed subdirectory still
\* in the queue, none popped and none archived.
C37_ArchiverHandOffWorkers ==
    arch.pc \notin {"none", "new", "run"} =>
        /\ PoolHandOff
        /\ (arch.pc = "returned" /\ arch.result = "Ok") =>
              IF arch.thread_count >= 1
              THEN /\ arch.queue = <<>>
                   /\ \A d \in arch.root : arch.pops[d] = 1 /\ arch.calls[d] = 1
              ELSE /\ arch.queue = arch.list
                   /\ \A d \in arch.root : arch.pops[d] = 0 /\ arch.calls[d] = 0
                   /\ arch.files = {}

C37_Witness ==
    /\ arch.pc = "returned" /\ arch.result = "Ok"
    /\ "pops" \in DOMAIN arch
    /\ arch.thread_count = MaxThreads
    /\ Cardinality(arch.root) = MaxDirs
    /\ \A d \in arch.root : arch.pops[d] = 1 /\ arch.execs[d] = 1
    /\ \E d, e \in arch.root : arch.holder[d] # arch.holder[e]

\* The number of result messages sent about directory d.
PoolResultCount(d) ==
    Cardinality({i \in 1..Len(arch.sends) :
                    arch.sends[i].kind \in {"complete", "error"} /\ arch.sends[i].dir = d})

\* C38 (archiver progress order), as claimed: with a Sender the total is
\* the first message, sent once, with the number of queued directories;
\* every directory that was popped and whose worker is through with it has
\* exactly one result message and no directory ever has two; and
\* "Archiving Complete!" is sent once, by the returning call, after all.
C38_ArchiverProgress ==
    (arch.pc \notin {"none", "new", "run"} /\ arch.mode = "sender" /\ arch.readable) =>
        LET s == arch.sends
        IN  /\ arch.pc = "total" => s = <<>>
            /\ arch.pc # "total" =>
                  /\ Len(s) >= 1
                  /\ s[1] = PoolTotalMsg(Len(arch.list))
                  /\ Len(arch.list) = Len(arch.queue)
                         + Cardinality({d \in arch.root : arch.pops[d] > 0})
            /\ \A i \in 2..Len(s) : s[i].kind # "total"
            /\ \A i \in 1..Len(s) : s[i].kind = "end" => i = Len(s) /\ arch.pc = "returned"
            /\ arch.pc = "returned" => s[Len(s)] = PoolCompleteMsg
            /\ \A d \in arch.root :
                  /\ PoolResultCount(d) <= arch.pops[d]
                  /\ (arch.pops[d] = 1 /\ \A w \in Workers : d \notin PoolHeld(w)) =>
                        PoolResultCount(d) = 1

\* ---------------------------------------------------------------------------
\* The GUI (src/src/lib.rs): App::update draws the controls each frame and, on
\* a click of the Compress button, starts one background thread that calls the
\* compressor and then, if asked, the archiver.
\* ---------------------------------------------------------------------------

\* Everything but the GUI's own state.
BesideApp == <<thread_count, callPc, mode, result, to_comp_file_list, queue, spawned,
               joined, wk, fs, dirs, env, self, arc_cal_func, rxAlive, chan, hist,
               probe, arch>>

\* What a call that returns a Result gives back.
Results == {"Ok", "Err"}

\* A folder field of App: the empty path of setup(), or a folder.
Folders == {"", "dir"}

\* The thread of thread::spawn(move || ...), at its first statement, with the
\* checkbox's value z it captured.
Job(z) == [pc |-> "compress", z |-> z, compress |-> "none", archive |-> "none"]

\* setup(): the controls are enabled, the fields come from the saved data.
InitApp ==
    /\ NoCall
    /\ probe = NoProbe
    /\ arch = NoArch
    /\ \E o, d, a \in Folders, z \in BOOLEAN :
          app = [ui |-> "running", is_ui_enable |-> TRUE, origin_dir |-> o,
                 dest_dir |-> d, archive_dir |-> a, to_zip |-> z, jobs |-> <<>>]

\* ui.set_enabled(is_ui_enable.load()) over the whole group of controls.
set_enabled == app.ui = "running" /\ app.is_ui_enable

\* The condition the Compress button's own group is enabled under; a group
\* inside a disabled group stays disabled.
compress_button_enabled ==
    /\ set_enabled
    /\ app.origin_dir # ""
    /\ app.dest_dir # ""
    /\ (app.to_zip => app.archive_dir # "")

\* A "select" button: the dialog's folder replaces the field. The archive
\* folder's button is drawn only while the checkbox is ticked.
pick_folder(field) ==
    /\ set_enabled
    /\ field = "archive_dir" => app.to_zip
    /\ app[field] = ""
    /\ app' = [app EXCEPT ![field] = "dir"]
    /\ UNCHANGED BesideApp

\* The "Archive subdirectories" checkbox.
checkbox ==
    /\ set_enabled
    /\ app' = [app EXCEPT !.to_zip = ~app.to_zip]
    /\ UNCHANGED BesideApp

\* The Compress button's handler: swap(false), list the origin's folders in
\* the GUI's own thread (unwrap: a failed listing panics there), spawn the job.
clicked ==
    /\ compress_button_enabled
    /\ Len(app.jobs) < MaxJobs
    /\ \E origin_dir_list \in Results :
          IF origin_dir_list = "Err"
          THEN app' = [app EXCEPT !.is_ui_enable = FALSE, !.ui = "panicked"]
          ELSE app' = [app EXCEPT !.is_ui_enable = FALSE,
                                  !.jobs = Append(@, Job(app.to_zip))]
    /\ UNCHANGED BesideApp

\* The match on compressor.compress() that re-enables the controls whatever z is.
compress_returns_enabling(j) ==
    /\ j \in 1..Len(app.jobs)
    /\ app.jobs[j].pc = "compress"
    /\ \E r \in Results :
          app' = [app EXCEPT
                    !.is_ui_enable = IF r = "Ok" THEN TRUE ELSE @,
                    !.jobs[j].compress = r,
                    !.jobs[j].pc = IF app.jobs[j].z THEN "dest_dir_list" ELSE "ended"]
    /\ UNCHANGED BesideApp

\* The job's match on compressor.compress(): Ok re-enables the controls when no
\* archiving was asked for, Err only prints; then `if z` goes on to archive.
compress_returns(j) ==
    /\ j \in 1..Len(app.jobs)
    /\ app.jobs[j].pc = "compress"
    /\ \E r \in Results :
          app' = [app EXCEPT
                    !.is_ui_enable = IF r = "Ok" /\ ~app.jobs[j].z THEN TRUE ELSE @,
                    !.jobs[j].compress = r,
                    !.jobs[j].pc = IF app.jobs[j].z THEN "dest_dir_list" ELSE "ended"]
    /\ UNCHANGED BesideApp

\* get_dir_list_with_depth(dest, 1).unwrap() in the job's thread: a failed
\* listing panics the thread.
dest_dir_list(j) ==
    /\ j \in 1..Len(app.jobs)
    /\ app.jobs[j].pc = "dest_dir_list"
    /\ \E r \in Results :
          app' = [app EXCEPT !.jobs[j].pc = IF r = "Ok" THEN "archive" ELSE "panicked"]
    /\ UNCHANGED BesideApp

\* The job's match on archiver.archive(): Ok re-enables the controls, Err only
\* prints; the thread ends.
archive_returns(j) ==
    /\ j \in 1..Len(app.jobs)
    /\ app.jobs[j].pc = "archive"
    /\ \E r \in Results :
          app' = [app EXCEPT
                    !.is_ui_enable = IF r = "Ok" THEN TRUE ELSE @,
                    !.jobs[j].archive = r,
                    !.jobs[j].pc = "ended"]
    /\ UNCHANGED BesideApp

JobStep(j) == compress_returns(j) \/ dest_dir_list(j) \/ archive_returns(j)

NextApp ==
    \/ \E field \in {"origin_dir", "dest_dir", "archive_dir"} : pick_folder(field)
    \/ checkbox
    \/ clicked
    \/ \E j \in 1..MaxJobs : JobStep(j)

SpecApp == InitApp /\ [][NextApp]_vars

\* A spawned thread runs on: each job takes its next step sooner or later.
SpecAppScheduled == SpecApp /\ \A j \in 1..MaxJobs : WF_vars(JobStep(j))

\* The job's thread is still running.
JobRunning(j) == j \in 1..Len(app.jobs) /\ app.jobs[j].pc \in {"compress", "dest_dir_list", "archive"}

\* The job's thread ran to its last statement.
JobEnded(j) == j \in 1..Len(app.jobs) /\ app.jobs[j].pc = "ended"

\* The job's thread panicked at an unwrap of its own.
JobPanicked(j) == j \in 1..Len(app.jobs) /\ app.jobs[j].pc = "panicked"

\* C39: after a click disabled the controls, the controls are enabled again
\* once the job the click started has ended, whatever compress() and archive()
\* returned and whether or not archiving was asked for.
C39_ReEnable ==
    \A j \in 1..MaxJobs :
        (JobRunning(j) /\ ~app.is_ui_enable) ~> (JobPanicked(j) \/ (JobEnded(j) /\ app.is_ui_enable))

\* C40: at most one job's thread runs at any time, the controls stay disabled
\* while it runs, and a job is at its archiving stage only after its call of
\* compress() has returned.
C40_SingleJob ==
    /\ Cardinality({j \in 1..MaxJobs : JobRunning(j)}) <= 1
    /\ (\E j \in 1..MaxJobs : JobRunning(j)) => ~app.is_ui_enable
    /\ \A j \in 1..Len(app.jobs) :
          (app.jobs[j].pc \in {"dest_dir_list", "archive"} \/ app.jobs[j].archive # "none")
              => app.jobs[j].z /\ app.jobs[j].compress # "none"

\* A second job archives after a first one that compressed and archived ended.
C40_Witness ==
    /\ Len(app.jobs) >= 2
    /\ JobEnded(1) /\ app.jobs[1].archive = "Ok"
    /\ JobRunning(2) /\ app.jobs[2].pc = "archive"

====
